---- MODULE Spec2Model ----
(***************************************************************************)
(* A model of wevis: the server-side connection lifecycle (Listener,      *)
(* Manager, Connection, Room), the framed message codec (MessageReader,   *)
(* MessageWriter, MessageDefinition) and the client's run loop.           *)
(*                                                                         *)
(* Bytes are naturals 0..255, byte strings are sequences of bytes.  A     *)
(* socket is a pair of byte streams.  Time is an integer clock.           *)
(***************************************************************************)
EXTENDS Integers, Sequences, FiniteSets, TLC

(***************************************************************************)
(* Program constants (src/wevis/__init__.py).                              *)
(***************************************************************************)
MAX_CONNECTIONS_PER_USER == 1
PING_INTERVAL == 10
PING_TIMEOUT == 5
LOGIN_TIMEOUT == 5

(***************************************************************************)
(* Bounds of the model.                                                    *)
(***************************************************************************)
\* Number of sockets that connect to the server.
NConn == 2
\* The clock advances by ClockStep and stops at MaxTime.
ClockStep == 5
MaxTime == 10
\* Number of frames a peer writes on one connection.
MaxPeerSends == 2
\* Number of messages the application queues on its Client.
MaxAppSends == 2

Conns == 1..NConn
\* Optional values: None, or Some(x) whose value is x[1].
None == << >>
Some(x) == << x >>

(***************************************************************************)
(* Byte strings.                                                           *)
(***************************************************************************)
Take(s, n) == SubSeq(s, 1, n)
Drop(s, n) == SubSeq(s, n + 1, Len(s))
Min(a, b) == IF a < b THEN a ELSE b
IsPrefix(p, s) == Len(p) <= Len(s) /\ Take(s, Len(p)) = p

\* struct.pack('<I', n): four bytes, little endian.
PackU32(n) ==
    << n % 256, (n \div 256) % 256, (n \div 65536) % 256,
       (n \div 16777216) % 256 >>
\* struct.unpack('<I', b)
UnpackU32(b) == b[1] + 256 * b[2] + 65536 * b[3] + 16777216 * b[4]
\* struct.pack('<i', n): two's complement, 32 bit (\div rounds down, so the
\* bytes of a negative n are those of n + 2^32).
PackI32(n) ==
    << n % 256, (n \div 256) % 256, (n \div 65536) % 256,
       (n \div 16777216) % 256 >>
\* struct.unpack('<i', b)
UnpackI32(b) ==
    b[1] + 256 * b[2] + 65536 * b[3]
    + 16777216 * (IF b[4] >= 128 THEN b[4] - 256 ELSE b[4])

(***************************************************************************)
(* Message definitions: the registry after wevis/__init__.py has          *)
(* registered the six reserved messages and the application has           *)
(* instantiated its own (src/server.py), and two more with arguments of   *)
(* every kind.  Each definition lists its arguments sorted by name, as    *)
(* MessageDefinition.__init__ stores them.                                 *)
(***************************************************************************)
Definitions ==
    << [name |-> "_ping", args |-> << >>],
       [name |-> "_pong", args |-> << >>],
       [name |-> "_welcome", args |-> << <<"salt", "str">> >>],
       [name |-> "_login",
        args |-> << <<"major", "int">>, <<"minor", "int">>,
                    <<"password", "str">>, <<"revision", "int">>,
                    <<"username", "str">> >>],
       [name |-> "_loginReject", args |-> << <<"reason", "str">> >>],
       [name |-> "_loginAccept", args |-> << >>],
       [name |-> "WhatTimeIsIt", args |-> << >>],
       [name |-> "ItIs", args |-> << <<"hours", "int">>, <<"minutes", "int">> >>],
       [name |-> "WhoAmI", args |-> << >>],
       [name |-> "YouAre", args |-> << <<"name", "str">> >>],
       [name |-> "SomeFloats", args |-> << <<"doubles", "?d">> >>],
       [name |-> "Sample",
        args |-> << <<"data", "bytes">>, <<"ratio", "float">>,
                    <<"text", "str">>, <<"values", "?d">> >>] >>

\* MessageDefinition._names[name].id
IdOf(name) == CHOOSE i \in 1..Len(Definitions) : Definitions[i].name = name

\* Message(name, **values): values is a function from argument names.
Message(name, values) == [name |-> name, values |-> values]
NoArgs == [x \in {} |-> 0]

RECURSIVE Concat(_)
Concat(ss) == IF ss = << >> THEN << >> ELSE Head(ss) \o Concat(Tail(ss))

(***************************************************************************)
(* The kinds of argument: "int" (4 bytes), "float" (8 bytes) and the      *)
(* variable-size "str", "bytes" and "?d" (an array of 8-byte floats).     *)
(* A str is a sequence of code points, a bytes a sequence of bytes, a     *)
(* float the fields of an IEEE-754 binary64: its sign, its biased         *)
(* exponent, the four high bits of its fraction and the six bytes of the  *)
(* rest.                                                                   *)
(***************************************************************************)
IsVector(kind) == kind \in {"str", "bytes", "?d"}
\* Bytes of an argument in the fixed part ('i' and 'I': 4, 'd': 8).
SlotSize(kind) == IF kind = "float" THEN 8 ELSE 4
\* Bytes of one item of a variable-size argument ('s': 1, 'd': 8).
ItemSize(kind) == IF kind = "?d" THEN 8 ELSE 1

\* _pack_size, for the first i arguments.
RECURSIVE PackSize(_, _)
PackSize(args, i) ==
    IF i = 0 THEN 0 ELSE PackSize(args, i - 1) + SlotSize(args[i][2])

\* struct.pack('<d', x) and struct.unpack('<d', b)
PackF64(x) ==
    x.low \o << (x.exp % 16) * 16 + x.frac, x.sign * 128 + (x.exp \div 16) >>
UnpackF64(b) ==
    [sign |-> b[8] \div 128, exp |-> (b[8] % 128) * 16 + (b[7] \div 16),
     frac |-> b[7] % 16, low |-> SubSeq(b, 1, 6)]

\* str.encode('utf-8'), for code points below 2048.
Utf8Char(c) ==
    IF c < 128 THEN << c >> ELSE << 192 + (c \div 64), 128 + (c % 64) >>
Utf8Encode(s) == Concat([i \in 1..Len(s) |-> Utf8Char(s[i])])

\* bytes.decode('utf-8'): [ok, value]; not ok stands for UnicodeDecodeError.
Utf8Cons(c, d) == [ok |-> d.ok, value |-> << c >> \o d.value]
RECURSIVE Utf8Decode(_)
Utf8Decode(b) ==
    IF b = << >> THEN [ok |-> TRUE, value |-> << >>]
    ELSE IF b[1] < 128 THEN Utf8Cons(b[1], Utf8Decode(Tail(b)))
    ELSE IF b[1] \in 194..223 /\ Len(b) >= 2 /\ b[2] \in 128..191
    THEN Utf8Cons((b[1] - 192) * 64 + (b[2] - 128), Utf8Decode(Tail(Tail(b))))
    ELSE [ok |-> FALSE, value |-> << >>]

\* struct.pack of 'ns' with a value of some other length: cut, or padded
\* with zero bytes.
PackS(n, b) == [i \in 1..n |-> IF i <= Len(b) THEN b[i] ELSE 0]

\* The fixed part: an int packs as '<i', a float as '<d', a variable-size
\* argument as the '<I' of len(v).
PackSlot(kind, v) ==
    IF kind = "int" THEN PackI32(v)
    ELSE IF kind = "float" THEN PackF64(v)
    ELSE PackU32(Len(v))
PackFixed(args, values) ==
    Concat([i \in 1..Len(args) |-> PackSlot(args[i][2], values[args[i][1]])])

\* The variable part: of a str, len(v) bytes of its UTF-8 encoding; a bytes
\* as it is; of an array, every float.  ("if vector_data" skips a
\* struct.pack that would pack nothing.)
PackPayload(kind, v) ==
    IF kind = "str" THEN PackS(Len(v), Utf8Encode(v))
    ELSE IF kind = "bytes" THEN v
    ELSE IF kind = "?d" THEN Concat([i \in 1..Len(v) |-> PackF64(v[i])])
    ELSE << >>
PackVectors(args, values) ==
    Concat([i \in 1..Len(args) |->
        PackPayload(args[i][2], values[args[i][1]])])

\* MessageDefinition.pack
Pack(m) ==
    PackU32(IdOf(m.name))
    \o PackFixed(Definitions[IdOf(m.name)].args, m.values)
    \o PackVectors(Definitions[IdOf(m.name)].args, m.values)

\* MessageDefinition.pack, of a definition d that carries its id.
PackAs(d, values) ==
    PackU32(d.id) \o PackFixed(d.args, values) \o PackVectors(d.args, values)

\* The bytes MessageWriter puts on the wire for one message.
Frame(m) == PackI32(Len(Pack(m))) \o Pack(m)

RECURSIVE SumSeq(_)
SumSeq(s) == IF s = << >> THEN 0 ELSE Head(s) + SumSeq(Tail(s))

\* The slot of argument i in the fixed part.
Slot(args, fixed, i) ==
    SubSeq(fixed, PackSize(args, i - 1) + 1, PackSize(args, i))

\* The sizes in bytes of the variable-size payloads, from the lengths in the
\* fixed part.
VecLens(args, fixed) ==
    [i \in 1..Len(args) |->
        IF IsVector(args[i][2])
        THEN UnpackU32(Slot(args, fixed, i)) * ItemSize(args[i][2])
        ELSE 0]

\* definition._vectors is not empty
HasVectors(args) == \E i \in 1..Len(args) : IsVector(args[i][2])

\* MessageDefinition.unpack.  UnpackError stands for the exception raised on
\* a short id, an unknown id (KeyError), a size mismatch (struct.error) or
\* a str that is no UTF-8 (UnicodeDecodeError).  The variable part is
\* unpacked, and its size checked, only for a definition that has
\* variable-size arguments.
UnpackError == [ok |-> FALSE]

ArgNames(args) == {args[i][1] : i \in 1..Len(args)}
ArgIndex(args, a) == CHOOSE j \in 1..Len(args) : args[j][1] = a

\* The value of a variable-size argument, from its payload.
PayloadValue(kind, b) ==
    IF kind = "str" THEN Utf8Decode(b)
    ELSE IF kind = "bytes" THEN [ok |-> TRUE, value |-> b]
    ELSE [ok |-> TRUE,
          value |-> [k \in 1..(Len(b) \div 8) |->
                        UnpackF64(SubSeq(b, 8 * k - 7, 8 * k))]]

\* The value of argument i, as [ok, value]: from its slot of the fixed
\* part, or from the variable part at the offset the lengths before it
\* give.
ArgValue(args, fixed, vdata, lens, i) ==
    IF args[i][2] = "int"
    THEN [ok |-> TRUE, value |-> UnpackI32(Slot(args, fixed, i))]
    ELSE IF args[i][2] = "float"
    THEN [ok |-> TRUE, value |-> UnpackF64(Slot(args, fixed, i))]
    ELSE PayloadValue(args[i][2],
                      SubSeq(vdata, SumSeq(Take(lens, i - 1)) + 1,
                             SumSeq(Take(lens, i - 1)) + lens[i]))

UnpackArgs(d, vals) ==
    IF \E i \in 1..Len(vals) : ~vals[i].ok THEN UnpackError
    ELSE [ok |-> TRUE,
          msg |-> Message(d.name,
            [a \in ArgNames(d.args) |-> vals[ArgIndex(d.args, a)].value])]

UnpackValues(d, fixed, vdata, lens) ==
    IF HasVectors(d.args) /\ Len(vdata) # SumSeq(lens) THEN UnpackError
    ELSE UnpackArgs(d, [i \in 1..Len(d.args) |->
                            ArgValue(d.args, fixed, vdata, lens, i)])

UnpackFixed(d, fixed, vdata) ==
    UnpackValues(d, fixed, vdata, VecLens(d.args, fixed))

UnpackSized(d, data, size) ==
    IF Len(data) < 4 + size THEN UnpackError
    ELSE UnpackFixed(d, SubSeq(data, 5, 4 + size), Drop(data, 4 + size))

UnpackDefinition(d, data) == UnpackSized(d, data, PackSize(d.args, Len(d.args)))

UnpackId(cid, data) ==
    IF cid \notin 1..Len(Definitions) THEN UnpackError
    ELSE UnpackDefinition(Definitions[cid], data)

Unpack(data) ==
    IF Len(data) < 4 THEN UnpackError
    ELSE UnpackId(UnpackU32(Take(data, 4)), data)

(***************************************************************************)
(* Sockets.  c2s holds the bytes the peer wrote that the server has not   *)
(* read yet; s2c all the bytes the server's socket accepted; peer is the  *)
(* state of the remote end.                                                *)
(***************************************************************************)
\* socket.recv(n) on a non-blocking socket: [kind, data, rest].  recv(0)
\* returns no bytes at once, whatever the socket holds.
Recv(buf, peer, n) ==
    IF peer = "reset" THEN [kind |-> "error", data |-> << >>, rest |-> buf]
    ELSE IF n = 0 THEN [kind |-> "data", data |-> << >>, rest |-> buf]
    ELSE IF buf # << >>
    THEN [kind |-> "data", data |-> Take(buf, Min(n, Len(buf))),
          rest |-> Drop(buf, Min(n, Len(buf)))]
    ELSE IF peer = "closed"
    THEN [kind |-> "data", data |-> << >>, rest |-> buf]
    ELSE [kind |-> "wouldblock", data |-> << >>, rest |-> buf]

(***************************************************************************)
(* MessageReader.                                                          *)
(***************************************************************************)
NewReader == [read |-> 0, size |-> None, buff |-> << >>]

\* "not self._size": None and 0 are both false.
SizeUnset(r) == r.size = None \/ r.size[1] = 0

\* What MessageReader.read does: the reader and the socket afterwards, and
\* out: "none" (it returns None), "msg" (it returns msg), "closed"
\* (SocketClosedError), "sockerr" (socket.error) or "unpackerr" (unpack
\* raised).
ReadResult(r, rest, out) == [r |-> r, rest |-> rest, out |-> out, msg |-> None]

\* ReadUnpacked returning the message without the reset of the reader.
ReadUnpacked_kept(r, rest, u) ==
    IF u.ok THEN [r |-> r, rest |-> rest, out |-> "msg", msg |-> u.msg]
    ELSE ReadResult(r, rest, "unpackerr")

ReadUnpacked(r, rest, u) ==
    IF u.ok THEN [r |-> NewReader, rest |-> rest, out |-> "msg", msg |-> u.msg]
    ELSE ReadResult(r, rest, "unpackerr")

\* The body, after recv has returned data and _read has been updated.
ReadBodyGot(r, rest) ==
    IF r.read = 0 THEN ReadResult(r, rest, "closed")
    ELSE IF r.read = r.size[1] THEN ReadUnpacked(r, rest, Unpack(r.buff))
    ELSE ReadResult(r, rest, "none")

\* ReadBodyRecv with "self._buff = recv(...)" for "self._buff += recv(...)".
ReadBodyRecv_overwrite(r, buf, rc) ==
    IF rc.kind = "wouldblock" THEN ReadResult(r, buf, "none")
    ELSE IF rc.kind = "error" THEN ReadResult(r, buf, "sockerr")
    ELSE ReadBodyGot([r EXCEPT !.buff = rc.data, !.read = Len(rc.data)],
                     rc.rest)

ReadBodyRecv(r, buf, rc) ==
    IF rc.kind = "wouldblock" THEN ReadResult(r, buf, "none")
    ELSE IF rc.kind = "error" THEN ReadResult(r, buf, "sockerr")
    ELSE ReadBodyGot([r EXCEPT !.buff = @ \o rc.data,
                               !.read = Len(r.buff) + Len(rc.data)], rc.rest)

\* The second half of MessageReader.read: "if self._size: ...".
ReadBody(r, buf, peer) ==
    IF SizeUnset(r) THEN ReadResult(r, buf, "none")
    ELSE ReadBodyRecv(r, buf, Recv(buf, peer, r.size[1] - r.read))

\* The size, after recv has returned data and _read has been updated.
ReadSizeGot(r, rest, peer) ==
    IF r.read = 0 THEN ReadResult(r, rest, "closed")
    ELSE ReadBody(IF r.read = 4
                  THEN [read |-> 0, size |-> Some(UnpackU32(r.buff)),
                        buff |-> << >>]
                  ELSE r, rest, peer)

ReadSizeRecv(r, buf, peer, rc) ==
    IF rc.kind = "wouldblock" THEN ReadResult(r, buf, "none")
    ELSE IF rc.kind = "error" THEN ReadResult(r, buf, "sockerr")
    ELSE ReadSizeGot([r EXCEPT !.buff = @ \o rc.data,
                               !.read = Len(r.buff) + Len(rc.data)],
                     rc.rest, peer)

\* MessageReader.read
Read(r, buf, peer) ==
    IF SizeUnset(r) THEN ReadSizeRecv(r, buf, peer, Recv(buf, peer, 4 - r.read))
    ELSE ReadBody(r, buf, peer)

\* The loop "message = read(); while message: ...; message = read()":
\* the messages read, the reader and the socket afterwards, and how the
\* loop ended ("none", or the exception of the last read).
RECURSIVE ReadAll(_, _, _, _)
ReadAllStep(x, peer, acc) ==
    IF x.out = "msg" THEN ReadAll(x.r, x.rest, peer, Append(acc, x.msg))
    ELSE [r |-> x.r, rest |-> x.rest, out |-> x.out, msgs |-> acc]
ReadAll(r, buf, peer, acc) == ReadAllStep(Read(r, buf, peer), peer, acc)

(***************************************************************************)
(* MessageWriter.                                                          *)
(***************************************************************************)
\* MessageWriter.queue
WriterQueue(buff, m) == buff \o Frame(m)

RECURSIVE QueueAll(_, _)
QueueAll(buff, ms) ==
    IF ms = << >> THEN buff ELSE QueueAll(WriterQueue(buff, Head(ms)), Tail(ms))

\* WriterSend dropping from the buffer one byte more than the socket took.
WriterSend_skips(buff, n) == [sent |-> Take(buff, n), buff |-> Drop(buff, n + 1)]

\* MessageWriter.send, when the socket takes n bytes in all before it reports
\* would-block (or the buffer is empty): the bytes sent and the buffer left.
WriterSend(buff, n) == [sent |-> Take(buff, n), buff |-> Drop(buff, n)]

(***************************************************************************)
(* The application's callbacks (src/example-server.py) and its users.     *)
(***************************************************************************)
Michael == << 109 >>
Stranger == << 120 >>
PlainPassword == << 112 >>
BadDigest == << 0 >>
Salts == { << 65 >> }

\* wevis.encrypt: a digest of password + salt in hexadecimal digits, here a
\* checksum of one digit.
Encrypt(password, salt) == << 48 + (SumSeq(password \o salt) % 10) >>

version_validator(major, minor, revision) == major >= 1

\* Returns the user (Some(name)) or None.
user_validator(username, password, salt) ==
    IF username = Michael /\ password = Encrypt(PlainPassword, salt)
    THEN Some(username) ELSE None

Login(major, username, password) ==
    Message("_login", [major |-> major, minor |-> 0, password |-> password,
                       revision |-> 0, username |-> username])
Reject(reason) == Message("_loginReject", [reason |-> reason])

\* The reasons, as the byte strings "U", "C", "I" and "M" stand for
\* 'Unexpected message.', 'Client requires update.', 'Invalid credentials.'
\* and 'Maximum number of connections per user reached.'.
Unexpected == << 85 >>
RequiresUpdate == << 67 >>
InvalidCredentials == << 73 >>
MaximumReached == << 77 >>

VARIABLES
    now,          \* time.time()
    halt,         \* Server._halt
    exception,    \* Server._exception
    accepted,     \* the connections Manager.add was called for
    incoming,     \* Manager._incoming
    connections,  \* Manager._connections
    user_counts,  \* Manager._user_counts
    mgr_pc,       \* where the Manager thread is in Manager.run
    mgr_i,        \* index of the connection the Manager ticks next
    conn,         \* the Connection objects
    sock,         \* their sockets
    room_pc,      \* where the Room thread is in Room.run
    room_in,      \* Room._incoming
    calls,        \* history: what the Manager thread did on each connection
    handled,      \* history: the messages Room.handle was called with
    queued,       \* history: the messages queued on each connection
    nsent,        \* the number of frames each peer has written
    frag,         \* whether the network splits what is written to it
    removals,     \* history: how often each connection was removed
    client,       \* the Client object of the peer of connection 1, if it is one
    app_sent,     \* history: the messages the application queued on the client
    unit          \* a reader, a writer or the codec on its own, with its socket

serverVars == << halt, exception >>
managerVars == << accepted, incoming, connections, user_counts, mgr_pc, mgr_i,
                 removals >>
connVars == << conn, calls, queued >>
benchVars == << frag, unit >>
netVars == << sock, nsent, benchVars >>
roomVars == << room_pc, room_in, handled >>
clientVars == << client, app_sent >>

vars ==
    << now, serverVars, managerVars, connVars, netVars, roomVars, clientVars >>

\* Connection.__init__
NewConnection ==
    [alive |-> TRUE, salt |-> None, user |-> None, ping_time |-> None,
     ping_sent |-> FALSE, outgoing |-> << >>, wbuf |-> << >>,
     rd |-> NewReader]

\* Client.__init__, with the version and the password of the example
\* client; username is michael.  exception is None or Some of the kind of
\* exception stored and, for a ConnectionError, the reason in its message;
\* raised is the exception that has left _connect (e in Client.run).
NewClient ==
    [status |-> "PRE_RUN", pc |-> "idle", conn |-> "none", halt |-> FALSE,
     exception |-> None, rd |-> NewReader, wbuf |-> << >>,
     outgoing |-> << >>, incoming |-> << >>, off |-> 0,
     major |-> 1, password |-> PlainPassword, raised |-> None]

\* The state once the Server, its Manager and its Room are constructed.
ServerStart ==
    /\ now = 0
    /\ halt = FALSE
    /\ exception = None
    /\ accepted = {}
    /\ incoming = << >>
    /\ connections = << >>
    /\ user_counts = [u \in {} |-> 0]
    /\ mgr_pc = "cycle"
    /\ mgr_i = 1
    /\ conn = [c \in Conns |-> NewConnection]
    /\ sock = [c \in Conns |-> [c2s |-> << >>, s2c |-> << >>, peer |-> "open"]]
    /\ room_pc = "check"
    /\ room_in = << >>
    /\ calls = [c \in Conns |-> << >>]
    /\ handled = [c \in Conns |-> << >>]
    /\ queued = [c \in Conns |-> << >>]
    /\ nsent = [c \in Conns |-> 0]
    /\ removals = [c \in Conns |-> 0]
    /\ app_sent = << >>

\* ... and a Client.
Start == ServerStart /\ client = NewClient

Init == Start /\ frag = FALSE /\ unit = None

(***************************************************************************)
(* Manager: the per-user counts.                                           *)
(***************************************************************************)
\* Manager.user_count
user_count(counts, user) == IF user \in DOMAIN counts THEN counts[user] ELSE 0

\* user_enter whose KeyError branch starts the count at 0.
user_enter_from_zero(counts, user) ==
    IF user \in DOMAIN counts THEN [counts EXCEPT ![user] = @ + 1]
    ELSE [u \in DOMAIN counts \cup {user} |->
            IF u = user THEN 0 ELSE counts[u]]

\* Manager.user_enter: the count update (the KeyError branch creates the key).
user_enter(counts, user) ==
    IF user \in DOMAIN counts THEN [counts EXCEPT ![user] = @ + 1]
    ELSE [u \in DOMAIN counts \cup {user} |->
            IF u = user THEN 1 ELSE counts[u]]

\* user_exit that leaves the count as it is.
user_exit_forgets(counts, user) == counts

\* Manager.user_exit: the count update.
user_exit(counts, user) == [counts EXCEPT ![user] = @ - 1]

(***************************************************************************)
(* Connection.  An operation works on a view v of one connection: the     *)
(* Connection object (cn), the Manager's counts, the history of calls,    *)
(* both directions of the socket, the messages passed to Room.send (room) *)
(* and whether an exception leaves the operation (raised).                 *)
(***************************************************************************)
MkView(cn, counts, cl, sk, q) ==
    [cn |-> cn, counts |-> counts, calls |-> cl,
     c2s |-> sk.c2s, s2c |-> sk.s2c, peer |-> sk.peer,
     room |-> << >>, queued |-> q, raised |-> FALSE]

View(c) == MkView(conn[c], user_counts, calls[c], sock[c], queued[c])

\* close without the call of Manager.user_exit.
Close_without_exit(v) ==
    IF v.cn.alive
    THEN [v EXCEPT !.cn = [@ EXCEPT !.alive = FALSE, !.user = None],
                   !.c2s = << >>]
    ELSE v

\* close without the test of _alive, and leaving _user set.
Close_unguarded(v) ==
    [v EXCEPT
        !.counts = IF v.cn.user # None THEN user_exit(@, v.cn.user[1]) ELSE @,
        !.calls = IF v.cn.user # None THEN Append(@, "user_exit") ELSE @,
        !.cn = [@ EXCEPT !.alive = FALSE],
        !.c2s = << >>]

\* Connection.close; closing the socket discards what it had not read.
Close(v) ==
    IF v.cn.alive
    THEN [v EXCEPT
            !.counts = IF v.cn.user # None THEN user_exit(@, v.cn.user[1]) ELSE @,
            !.calls = IF v.cn.user # None THEN Append(@, "user_exit") ELSE @,
            !.cn = [@ EXCEPT !.alive = FALSE, !.user = None],
            !.c2s = << >>]
    ELSE v

\* MessageWriter.send_blocking: the frame is written whole, or the socket
\* raises an error, which it can do once the peer has closed or reset.
SendBlocking(v, m) ==
    {[v EXCEPT !.s2c = @ \o Frame(m)]}
    \cup (IF v.peer = "open" THEN {} ELSE {[v EXCEPT !.raised = TRUE]})

\* RejectAndClose without the close.
RejectAndLeaveOpen(v, reason) == SendBlocking(v, Reject(reason))

\* "send_blocking(reject); return self.close(...)"
RejectAndClose(v, reason) ==
    {IF w.raised THEN w ELSE Close(w) : w \in SendBlocking(v, Reject(reason))}

\* Connection.tick_initial
tick_initial(v, t) ==
    UNION {
        {IF w.raised THEN w
         ELSE [w EXCEPT !.cn.ping_time = Some(t + LOGIN_TIMEOUT)]
            : w \in SendBlocking([v EXCEPT !.cn.salt = Some(salt)],
                                 Message("_welcome", [salt |-> salt]))}
        : salt \in Salts}

\* The history of calls, extended: a callback called, or the reason of a
\* close for a time-out.
Called(v, what) == [v EXCEPT !.calls = Append(@, what)]

\* Connection.tick_login: "Accept".
login_accept(v, user) ==
    {IF w.raised THEN w
     ELSE Called([w EXCEPT !.cn.user = user,
                           !.counts = user_enter(@, user[1])], "user_enter")
        : w \in SendBlocking(v, Message("_loginAccept", NoArgs))}

\* login_count with the comparison off by one (">" for ">=").
login_count_off_by_one(v, user) ==
    IF user_count(v.counts, user[1]) > MAX_CONNECTIONS_PER_USER
    THEN RejectAndClose(v, MaximumReached)
    ELSE login_accept(v, user)

\* Connection.tick_login: "Validate user count".
login_count(v, user) ==
    IF user_count(v.counts, user[1]) >= MAX_CONNECTIONS_PER_USER
    THEN RejectAndClose(v, MaximumReached)
    ELSE login_accept(v, user)

\* Connection.tick_login: "Validate login credentials".
login_user(v, user) ==
    IF user = None THEN RejectAndClose(v, InvalidCredentials)
    ELSE login_count(Called(v, "user_count"), user)

\* login_version with the version test left out.
login_version_unchecked(v, message) ==
    login_user(Called(v, "user_validator"),
               user_validator(message.values.username,
                              message.values.password, v.cn.salt[1]))

\* Connection.tick_login: "Validate user version".
login_version(v, message) ==
    IF ~version_validator(message.values.major, message.values.minor,
                          message.values.revision)
    THEN RejectAndClose(v, RequiresUpdate)
    ELSE login_user(Called(v, "user_validator"),
                    user_validator(message.values.username,
                                   message.values.password, v.cn.salt[1]))

\* tick_login_message passing anything but a _login on to the room.
tick_login_message_lenient(v, message) ==
    IF message.name # "_login" THEN {[v EXCEPT !.room = Append(@, message)]}
    ELSE login_version(Called(v, "version_validator"), message)

\* tick_login_message asking the version validator before it looks at the
\* name of the message.
tick_login_message_validating(v, message) ==
    IF message.name # "_login"
    THEN RejectAndClose(Called(v, "version_validator"), Unexpected)
    ELSE login_version(Called(v, "version_validator"), message)

\* Connection.tick_login, once a message has been read.
tick_login_message(v, message) ==
    IF message.name # "_login" THEN RejectAndClose(v, Unexpected)
    ELSE login_version(Called(v, "version_validator"), message)

\* The view once the reader has returned x.
AfterRead(v, x) == [v EXCEPT !.cn.rd = x.r, !.c2s = x.rest]

\* tick_login_read with a deadline that bytes of a frame move.
tick_login_read_postponed(v, t, x) ==
    IF x.out \in {"closed", "sockerr", "unpackerr"} THEN {Close(AfterRead(v, x))}
    ELSE IF x.out = "msg"
    THEN tick_login_message(Called(AfterRead(v, x), "read"), x.msg)
    ELSE IF x.r # v.cn.rd
    THEN {[AfterRead(v, x) EXCEPT !.cn.ping_time = Some(t + LOGIN_TIMEOUT)]}
    ELSE IF t > v.cn.ping_time[1]
    THEN {Close(Called(AfterRead(v, x), "Login time out"))}
    ELSE {AfterRead(v, x)}

tick_login_read(v, t, x) ==
    IF x.out \in {"closed", "sockerr", "unpackerr"} THEN {Close(AfterRead(v, x))}
    ELSE IF x.out = "msg"
    THEN tick_login_message(Called(AfterRead(v, x), "read"), x.msg)
    ELSE IF t > v.cn.ping_time[1]
    THEN {Close(Called(AfterRead(v, x), "Login time out"))}
    ELSE {AfterRead(v, x)}

\* Connection.tick_login
tick_login(v, t) == tick_login_read(v, t, Read(v.cn.rd, v.c2s, v.peer))

\* handle_messages putting each message at the front of the room's queue.
RECURSIVE handle_messages_at_front(_, _, _)
handle_messages_at_front(v, msgs, t) ==
    IF msgs = << >> THEN v
    ELSE handle_messages_at_front(
        IF Head(msgs).name = "_pong"
        THEN [v EXCEPT !.cn.ping_sent = FALSE,
                       !.cn.ping_time = Some(t + PING_INTERVAL)]
        ELSE [v EXCEPT !.room = << Head(msgs) >> \o @],
        Tail(msgs), t)

\* handle_messages with a _pong that moves the deadline and leaves the ping
\* pending.
RECURSIVE handle_messages_pending(_, _, _)
handle_messages_pending(v, msgs, t) ==
    IF msgs = << >> THEN v
    ELSE handle_messages_pending(
        IF Head(msgs).name = "_pong"
        THEN [v EXCEPT !.cn.ping_time = Some(t + PING_INTERVAL)]
        ELSE [v EXCEPT !.room = Append(@, Head(msgs))],
        Tail(msgs), t)

\* The body of the while loop of Connection.tick_normal, for every message read.
RECURSIVE handle_messages(_, _, _)
handle_messages(v, msgs, t) ==
    IF msgs = << >> THEN v
    ELSE handle_messages(
        IF Head(msgs).name = "_pong"
        THEN [v EXCEPT !.cn.ping_sent = FALSE,
                       !.cn.ping_time = Some(t + PING_INTERVAL)]
        ELSE [v EXCEPT !.room = Append(@, Head(msgs))],
        Tail(msgs), t)

\* tick_normal_check closing at the deadline whether or not a ping is
\* pending.
tick_normal_check_hasty(v, t, out) ==
    IF out # "none" THEN Close(v)
    ELSE IF t > v.cn.ping_time[1] THEN Close(Called(v, "Ping time out"))
    ELSE v

\* Connection.tick_normal: "Check connection status", unless a read raised.
tick_normal_check(v, t, out) ==
    IF out # "none" THEN Close(v)
    ELSE IF t > v.cn.ping_time[1]
    THEN IF v.cn.ping_sent THEN Close(Called(v, "Ping time out"))
         ELSE [v EXCEPT !.cn.outgoing = Append(@, Message("_ping", NoArgs)),
                        !.queued = Append(@, Message("_ping", NoArgs)),
                        !.cn.ping_sent = TRUE,
                        !.cn.ping_time = Some(t + PING_TIMEOUT)]
    ELSE v

\* Connection.tick_normal: "Parse incoming messages", x being what was read.
tick_normal_read(v, t, x) ==
    tick_normal_check(handle_messages(AfterRead(v, x), x.msgs, t), t, x.out)

\* What a non-blocking socket may take of len bytes before it reports
\* would-block: anything when the network splits writes, else all of it.
SendSizes(len) == IF frag THEN 0..len ELSE {len}

\* Sent with the writer keeping in its buffer what the socket took.
Sent_and_kept(v, n) == [v EXCEPT !.s2c = @ \o WriterSend(v.cn.wbuf, n).sent]

\* The view once the socket has taken n bytes of the writer's buffer.
Sent(v, n) ==
    [v EXCEPT !.s2c = @ \o WriterSend(v.cn.wbuf, n).sent,
              !.cn.wbuf = WriterSend(@, n).buff]

\* Connection.tick_normal from "self._writer.send()": the socket takes n
\* bytes, or raises an error, which it can do once the peer has closed or
\* reset; then the reader is drained and the deadline checked.
tick_normal_send(v, t) ==
    {tick_normal_read(Sent(v, n), t, ReadAll(v.cn.rd, v.c2s, v.peer, << >>))
        : n \in SendSizes(Len(v.cn.wbuf))}
    \cup (IF v.peer # "open" /\ v.cn.wbuf # << >>
          THEN {[v EXCEPT !.raised = TRUE]} ELSE {})

\* Connection.tick_normal: first the outgoing queue goes to the writer.
tick_normal(v, t) ==
    tick_normal_send([v EXCEPT !.cn.outgoing = << >>,
                               !.cn.wbuf = QueueAll(@, v.cn.outgoing)], t)

\* tick without its test of _alive.
Tick_unguarded(v, t) ==
    IF v.cn.user # None THEN tick_normal(v, t)
    ELSE IF v.cn.salt # None THEN tick_login(v, t)
    ELSE tick_initial(v, t)

\* Connection.tick
Tick(v, t) ==
    IF ~v.cn.alive THEN {v}
    ELSE IF v.cn.user # None THEN tick_normal(v, t)
    ELSE IF v.cn.salt # None THEN tick_login(v, t)
    ELSE tick_initial(v, t)

(***************************************************************************)
(* Listener.run: accept a socket and pass it to Manager.add.               *)
(***************************************************************************)
ListenerAccept(c) ==
    /\ ~halt
    /\ c \notin accepted
    /\ \A d \in Conns : d < c => d \in accepted
    /\ accepted' = accepted \cup {c}
    /\ incoming' = Append(incoming, c)
    /\ UNCHANGED clientVars
    /\ UNCHANGED << now, serverVars, connections, user_counts, mgr_pc, mgr_i,
                    connVars, netVars, roomVars, removals >>

(***************************************************************************)
(* Manager.run.                                                            *)
(***************************************************************************)
\* A remove that leaves the list as it is.
RemoveNothing(s, x) == s

\* list.remove
RemoveFirst(s, x) ==
    LET i == CHOOSE j \in 1..Len(s) : s[j] = x /\ \A k \in 1..(j - 1) : s[k] # x
    IN Take(s, i - 1) \o Drop(s, i)

\* "for c in closed: c.close(); self._connections.remove(c)"
RECURSIVE Sweep(_, _)
Sweep(S, closed) ==
    IF closed = << >> THEN S
    ELSE LET c == Head(closed)
             v == Close(MkView(S.conn[c], S.counts, S.calls[c], S.sock[c],
                               << >>))
         IN Sweep([conn |-> [S.conn EXCEPT ![c] = v.cn],
                   counts |-> v.counts,
                   calls |-> [S.calls EXCEPT ![c] = v.calls],
                   sock |-> [S.sock EXCEPT ![c].c2s = v.c2s],
                   connections |-> RemoveFirst(S.connections, c),
                   removals |-> [S.removals EXCEPT ![c] = @ + 1]],
                  Tail(closed))

\* One pass of the loop of Manager.run up to the ticks: the halt flag is
\* tested, closed connections are removed and incoming ones appended.
ManagerCycle ==
    /\ mgr_pc = "cycle"
    /\ IF halt
       THEN /\ mgr_pc' = "stopped"
            /\ UNCHANGED << incoming, connections, user_counts, mgr_i, conn,
                            calls, sock, removals >>
       ELSE LET closed == SelectSeq(connections, LAMBDA c : ~conn[c].alive)
                S == Sweep([conn |-> conn, counts |-> user_counts,
                            calls |-> calls, sock |-> sock,
                            connections |-> connections,
                            removals |-> removals], closed)
            IN /\ conn' = S.conn
               /\ sock' = S.sock
               /\ user_counts' = S.counts
               /\ calls' = S.calls
               /\ removals' = S.removals
               /\ connections' = S.connections \o incoming
               /\ incoming' = << >>
               /\ mgr_i' = 1
               /\ mgr_pc' = IF connections' = << >> THEN "cycle" ELSE "tick"
    /\ UNCHANGED clientVars
    /\ UNCHANGED << now, serverVars, accepted, nsent, benchVars, roomVars, queued >>

\* "for c in self._connections: c.tick()", one connection at a time; an
\* exception that leaves tick ends Manager.run with Server.stop(e).
ManagerTick ==
    /\ mgr_pc = "tick"
    /\ LET c == connections[mgr_i] IN
       \E w \in Tick(View(c), now) :
        /\ conn' = [conn EXCEPT ![c] = w.cn]
        /\ user_counts' = w.counts
        /\ calls' = [calls EXCEPT ![c] = w.calls]
        /\ sock' = [sock EXCEPT ![c].c2s = w.c2s, ![c].s2c = w.s2c]
        /\ queued' = [queued EXCEPT ![c] = w.queued]
        /\ room_in' = room_in \o [i \in 1..Len(w.room) |-> << c, w.room[i] >>]
        /\ IF w.raised
           THEN /\ mgr_pc' = "stopped"
                /\ halt' = TRUE
                /\ exception' = Some("socket.error")
                /\ UNCHANGED mgr_i
           ELSE /\ mgr_pc' = IF mgr_i = Len(connections) THEN "cycle" ELSE "tick"
                /\ mgr_i' = mgr_i + 1
                /\ UNCHANGED << serverVars >>
    /\ UNCHANGED clientVars
    /\ UNCHANGED << now, accepted, incoming, connections, room_pc, handled,
                    nsent, benchVars, removals >>

(***************************************************************************)
(* Room.run, with the handler of the example server (TimeRoom.handle).    *)
(***************************************************************************)
\* A loop test that does not read the halt flag.
RoomCheck_deaf ==
    /\ room_pc = "check"
    /\ room_pc' = "drain"
    /\ UNCHANGED clientVars
    /\ UNCHANGED << now, serverVars, managerVars, connVars, netVars, room_in,
                    handled >>

RoomCheck ==
    /\ room_pc = "check"
    /\ room_pc' = IF halt THEN "stopped" ELSE "drain"
    /\ UNCHANGED clientVars
    /\ UNCHANGED << now, serverVars, managerVars, connVars, netVars, room_in,
                    handled >>

\* TimeRoom.handle: the replies it queues with connection.q; any other
\* message raises, and so does connection.user.name on a connection that
\* was closed, which Room.run catches.
Handle(cn, message, t) ==
    IF message.name = "WhatTimeIsIt"
    THEN << Message("ItIs", [hours |-> 0, minutes |-> t]) >>
    ELSE IF message.name = "WhoAmI" /\ cn.user # None
    THEN << Message("YouAre", [name |-> cn.user[1]]) >>
    ELSE << >>

\* TimeRoom.handle raises: its "raise Exception" for a message it does not
\* know, and connection.user.name on a connection that was closed.
HandleRaises(cn, message) ==
    \/ message.name \notin {"WhatTimeIsIt", "WhoAmI"}
    \/ message.name = "WhoAmI" /\ cn.user = None

\* Room.run without the try around handle: the exception reaches the outer
\* "except Exception as e: self._server.stop(e)".
RoomUncaught(raised) ==
    IF raised
    THEN [pc |-> "stopped", halt |-> TRUE, exception |-> Some("Exception")]
    ELSE [pc |-> "drain", halt |-> halt, exception |-> exception]

\* Room.run: "try: self.handle(connection, message) except Exception:
\* self._log.error(...)": where the thread is afterwards, and the Server's
\* halt flag and exception.
RoomCaught(raised) ==
    [pc |-> "drain", halt |-> halt, exception |-> exception]

RoomHandle ==
    /\ room_pc = "drain"
    /\ room_in # << >>
    /\ LET c == Head(room_in)[1]
           message == Head(room_in)[2]
       IN /\ room_in' = Tail(room_in)
          /\ handled' = [handled EXCEPT ![c] = Append(@, message)]
          /\ conn' = [conn EXCEPT
                        ![c].outgoing = @ \o Handle(conn[c], message, now)]
          /\ queued' = [queued EXCEPT
                        ![c] = @ \o Handle(conn[c], message, now)]
          /\ room_pc' = RoomCaught(HandleRaises(conn[c], message)).pc
          /\ halt' = RoomCaught(HandleRaises(conn[c], message)).halt
          /\ exception' = RoomCaught(HandleRaises(conn[c], message)).exception
    /\ UNCHANGED clientVars
    /\ UNCHANGED << now, managerVars, netVars, calls >>

RoomSleep ==
    /\ room_pc = "drain"
    /\ room_in = << >>
    /\ room_pc' = "check"
    /\ UNCHANGED clientVars
    /\ UNCHANGED << now, serverVars, managerVars, connVars, netVars, room_in,
                    handled >>

(***************************************************************************)
(* Server.stop(), called by the application.                               *)
(***************************************************************************)
ServerStop ==
    /\ ~halt
    /\ halt' = TRUE
    /\ UNCHANGED clientVars
    /\ UNCHANGED << now, exception, managerVars, connVars, netVars, roomVars >>

(***************************************************************************)
(* The remote end of a connection: a program that writes a frame once the *)
(* server has read the one before, and closes or resets its socket.  It    *)
(* can compute the digest of the password once the salt has been sent.     *)
(***************************************************************************)
\* A frame whose body names no registered message id.
Garbage == PackI32(4) \o PackU32(99)
WhatTimeIsIt == Message("WhatTimeIsIt", NoArgs)
Pong == Message("_pong", NoArgs)
GoodLogin ==
    [salt \in Salts |-> [major \in {0, 1} |->
        Frame(Login(major, Michael, Encrypt(PlainPassword, salt)))]]
BadLogin == Frame(Login(1, Michael, BadDigest))
FixedFrames == {BadLogin, Frame(WhatTimeIsIt), Frame(Pong), Garbage}

PeerFrames(c) ==
    FixedFrames
    \cup (IF conn[c].salt = None THEN {}
          ELSE {GoodLogin[conn[c].salt[1]][major] : major \in {0, 1}})

PeerSend(c) ==
    /\ c \in accepted
    /\ conn[c].alive
    /\ sock[c].peer = "open"
    /\ sock[c].c2s = << >>
    /\ nsent[c] < MaxPeerSends
    /\ \E f \in PeerFrames(c) : sock' = [sock EXCEPT ![c].c2s = @ \o f]
    /\ nsent' = [nsent EXCEPT ![c] = @ + 1]
    /\ UNCHANGED clientVars
    /\ UNCHANGED << now, serverVars, managerVars, connVars, roomVars, benchVars >>

PeerClose(c) ==
    /\ c \in accepted
    /\ conn[c].alive
    /\ sock[c].peer = "open"
    /\ sock' = [sock EXCEPT ![c].peer = "closed"]
    /\ UNCHANGED clientVars
    /\ UNCHANGED << now, serverVars, managerVars, connVars, roomVars, nsent,
                    benchVars >>

PeerReset(c) ==
    /\ c \in accepted
    /\ conn[c].alive
    /\ sock[c].peer = "open"
    /\ sock' = [sock EXCEPT ![c].peer = "reset", ![c].c2s = << >>]
    /\ UNCHANGED clientVars
    /\ UNCHANGED << now, serverVars, managerVars, connVars, roomVars, nsent,
                    benchVars >>

Tock ==
    /\ now < MaxTime
    /\ now' = now + ClockStep
    /\ UNCHANGED clientVars
    /\ UNCHANGED << serverVars, managerVars, connVars, netVars, roomVars >>

(***************************************************************************)
(* Spec: the lifecycle of NConn connections under the Listener and the    *)
(* Manager, with peers that write whole frames, while the application     *)
(* does not stop the server.                                               *)
(***************************************************************************)
Next ==
    \/ Tock
    \/ \E c \in Conns : ListenerAccept(c)
    \/ ManagerCycle
    \/ ManagerTick
    \/ \E c \in Conns : PeerSend(c)
    \/ \E c \in Conns : PeerClose(c)
    \/ \E c \in Conns : PeerReset(c)

Spec == Init /\ [][Next]_vars

(***************************************************************************)
(* The Client, as the peer of connection ClientConn.  It reads what the   *)
(* server wrote from client.off on, so that its socket keeps all of it.   *)
(***************************************************************************)
ClientConn == 1
WhoAmI == Message("WhoAmI", NoArgs)

\* The server's end of the client's socket, and what the client has not
\* read.  The end is that of the Connection, or, where a program stands in
\* for the server (SpecClient), the end that unit holds.
ScriptedServer == unit # None /\ "end" \in DOMAIN unit
ServerEnd ==
    IF ScriptedServer THEN unit.end
    ELSE IF conn[ClientConn].alive THEN "open" ELSE "closed"
Unread == Drop(sock[ClientConn].s2c, client.off)

\* The client once its reader has returned x.
ClientAfterRead(cl, x) ==
    [cl EXCEPT !.rd = x.r, !.off = Len(sock[ClientConn].s2c) - Len(x.rest)]

\* Client.close
ClientClose(cl) == [cl EXCEPT !.conn = "none"]

\* The exceptions the client stores: the ConnectionError of a rejected
\* login, whose message holds the reason, and any other.
LoginRejected(reason) == Some([type |-> "ConnectionError", reason |-> reason])
OtherException == Some([type |-> "Exception", reason |-> << >>])

\* A client that takes the answer for an accept whatever it is.
ConnectFailed_connected(cl, e) ==
    [cl EXCEPT !.status = "CONNECTED", !.pc = "run"]

\* Client.run: "except Exception as e" around _connect, up to
\* "self._status = Client.POST_RUN"; the socket stays open unless _connect
\* closed it.
ConnectFailed(cl, e) ==
    [cl EXCEPT !.status = "POST_RUN", !.raised = e, !.pc = "store"]

\* Client.run: "self._exception = e; return", the statement after.
ClientStoreException ==
    /\ client.pc = "store"
    /\ client' = [client EXCEPT !.exception = client.raised, !.pc = "done"]
    /\ UNCHANGED << now, serverVars, managerVars, connVars, netVars, roomVars,
                    app_sent >>

\* Client.run up to the socket's connect in Client._connect.
ClientStart ==
    /\ client.status = "PRE_RUN"
    /\ client' = [client EXCEPT !.status = "PRE_CONNECT", !.conn = "open",
                                !.pc = "welcome"]
    /\ UNCHANGED << now, serverVars, managerVars, connVars, netVars, roomVars,
                    app_sent >>

\* Listener.run accepts the client's connection.
ClientAccepted ==
    /\ client.status # "PRE_RUN"
    /\ ListenerAccept(ClientConn)

\* MessageReader.read_blocking, which Client._receive_blocking calls: one
\* read of its loop, as x.
ReadBlocking(cl) == Read(cl.rd, Unread, ServerEnd)

\* Client._connect: "ready = self._receive_blocking('_welcome')" and the
\* send_blocking of _login, which raises if the server has closed.
ClientWelcome ==
    /\ client.pc = "welcome"
    /\ LET x == ReadBlocking(client) IN
       IF x.out = "none"
       THEN client' = ClientAfterRead(client, x) /\ UNCHANGED sock
       ELSE IF x.out = "msg" /\ x.msg.name = "_welcome" /\ ServerEnd = "open"
       THEN /\ client' = [ClientAfterRead(client, x) EXCEPT !.pc = "result"]
            /\ sock' = [sock EXCEPT ![ClientConn].c2s = @ \o
                Frame(Login(client.major, Michael,
                            Encrypt(client.password, x.msg.values.salt)))]
       ELSE /\ client' = ConnectFailed(ClientAfterRead(client, x),
                                       OtherException)
            /\ UNCHANGED sock
    /\ UNCHANGED << now, serverVars, managerVars, connVars, nsent, benchVars,
                    roomVars, app_sent >>

\* Client._connect: "result = self._receive_blocking('_loginAccept',
\* '_loginReject')", and Client.run: "self._status = Client.CONNECTED".
ClientResult ==
    /\ client.pc = "result"
    /\ LET x == ReadBlocking(client) IN
       IF x.out = "none"
       THEN client' = ClientAfterRead(client, x) /\ UNCHANGED sock
       ELSE IF x.out = "msg" /\ x.msg.name = "_loginAccept"
       THEN /\ client' = [ClientAfterRead(client, x) EXCEPT
                            !.status = "CONNECTED", !.pc = "run"]
            /\ UNCHANGED sock
       ELSE IF x.out = "msg" /\ x.msg.name = "_loginReject"
       THEN /\ client' = ConnectFailed(ClientClose(ClientAfterRead(client, x)),
                                       LoginRejected(x.msg.values.reason))
            /\ sock' = [sock EXCEPT ![ClientConn].peer = "closed"]
       ELSE /\ client' = ConnectFailed(ClientAfterRead(client, x),
                                       OtherException)
            /\ UNCHANGED sock
    /\ UNCHANGED << now, serverVars, managerVars, connVars, nsent, benchVars,
                    roomVars, app_sent >>

\* A client that does not answer a _ping.
client_message_silent(cl, message) ==
    IF message.name = "_ping" THEN cl
    ELSE [cl EXCEPT !.incoming = Append(@, message)]

\* The body of the while loop that reads in Client.run: "if message.name ==
\* '_ping': self.q('_pong') else: self._incoming.put(message)".
client_message(cl, message) ==
    IF message.name = "_ping"
    THEN [cl EXCEPT !.outgoing = Append(@, Message("_pong", NoArgs))]
    ELSE [cl EXCEPT !.incoming = Append(@, message)]

\* The same for every message read.
RECURSIVE client_messages(_, _)
client_messages(cl, msgs) ==
    IF msgs = << >> THEN cl
    ELSE client_messages(client_message(cl, Head(msgs)), Tail(msgs))

\* Client.run: "finally: self.close(); self.stop(); POST_RUN".
ClientFinally(cl) ==
    [ClientClose(cl) EXCEPT !.halt = TRUE, !.status = "POST_RUN", !.pc = "done"]

\* A run loop that stores the exception of the reader and goes on.
client_read_on(cl, x) ==
    IF x.out = "none" THEN client_messages(ClientAfterRead(cl, x), x.msgs)
    ELSE [client_messages(ClientAfterRead(cl, x), x.msgs)
            EXCEPT !.exception = OtherException]

\* Client.run: "Parse incoming messages", x being what was read; an
\* exception of the reader ends the loop.
client_read(cl, x) ==
    IF x.out = "none" THEN client_messages(ClientAfterRead(cl, x), x.msgs)
    ELSE ClientFinally([client_messages(ClientAfterRead(cl, x), x.msgs)
                            EXCEPT !.exception = OtherException])

\* Client.run: one pass of its loop, in which the socket takes n bytes.
client_pass(cl, n) ==
    client_read([cl EXCEPT !.outgoing = << >>,
                           !.wbuf = WriterSend(QueueAll(@, cl.outgoing), n).buff],
                ReadAll(cl.rd, Unread, ServerEnd, << >>))

ClientRun ==
    /\ client.pc = "run"
    /\ IF client.halt
       THEN client' = ClientFinally(client) /\ UNCHANGED << sock >>
       ELSE \E n \in SendSizes(Len(QueueAll(client.wbuf, client.outgoing))) :
            /\ client' = client_pass(client, n)
            /\ sock' = [sock EXCEPT
                 ![ClientConn].c2s =
                    IF ServerEnd = "open"
                    THEN @ \o WriterSend(QueueAll(client.wbuf,
                                                  client.outgoing), n).sent
                    ELSE @]
    /\ UNCHANGED << now, serverVars, managerVars, connVars, nsent, benchVars,
                    roomVars, app_sent >>

\* The socket of a client that has closed it.
ClientClosed ==
    /\ client.conn = "none" /\ client.status = "POST_RUN"
    /\ sock[ClientConn].peer = "open"
    /\ sock' = [sock EXCEPT ![ClientConn].peer = "closed"]
    /\ UNCHANGED << now, serverVars, managerVars, connVars, nsent, benchVars,
                    roomVars, clientVars >>

\* The application: Client.queue, once start_blocking has returned.
ClientQueue(m) ==
    /\ client.status = "CONNECTED"
    /\ Len(app_sent) < MaxAppSends
    /\ client' = [client EXCEPT !.outgoing = Append(@, m)]
    /\ app_sent' = Append(app_sent, m)
    /\ UNCHANGED << now, serverVars, managerVars, connVars, netVars, roomVars >>

\* The application: Client.stop, once start_blocking has returned.
ClientStop ==
    /\ client.status = "CONNECTED"
    /\ ~client.halt
    /\ client' = [client EXCEPT !.halt = TRUE]
    /\ UNCHANGED << now, serverVars, managerVars, connVars, netVars, roomVars,
                    app_sent >>

(***************************************************************************)
(* SpecStream: one Client and the server, Manager and Room threads, over  *)
(* a network that takes any part of what is written to it, while the     *)
(* clock stands still: no deadline passes.                                 *)
(***************************************************************************)
InitStream == Start /\ frag = TRUE /\ unit = None

NextStream ==
    \/ ClientStart
    \/ ClientAccepted
    \/ ManagerCycle
    \/ ManagerTick
    \/ RoomCheck
    \/ RoomHandle
    \/ RoomSleep
    \/ ClientWelcome
    \/ ClientResult
    \/ ClientRun
    \/ ClientClosed
    \/ \E m \in {WhatTimeIsIt, WhoAmI} : ClientQueue(m)
    \/ ClientStop

SpecStream == InitStream /\ [][NextStream]_vars

(***************************************************************************)
(* SpecRoom: one Client and the server, Manager and Room threads, over a  *)
(* network that takes whole what is written to it, with a clock.  The     *)
(* application queues messages the handler knows, one it does not (ItIs)  *)
(* and a _ping.                                                            *)
(***************************************************************************)
ItIsNoon == Message("ItIs", [hours |-> 12, minutes |-> 0])
Ping == Message("_ping", NoArgs)

InitRoom == Start /\ frag = FALSE /\ unit = None

NextRoom ==
    \/ Tock
    \/ ClientStart
    \/ ClientAccepted
    \/ ManagerCycle
    \/ ManagerTick
    \/ RoomCheck
    \/ RoomHandle
    \/ RoomSleep
    \/ ClientWelcome
    \/ ClientResult
    \/ ClientStoreException
    \/ ClientRun
    \/ ClientClosed
    \/ \E m \in {WhatTimeIsIt, ItIsNoon, Ping} : ClientQueue(m)
    \/ ClientStop

SpecRoom == InitRoom /\ [][NextRoom]_vars

(***************************************************************************)
(* SpecPing: one connection under the Listener, the Manager and the Room, *)
(* whose peer writes whole frames, among them _ping once it is logged in, *)
(* with a clock that runs past the deadlines of the keepalive.            *)
(***************************************************************************)
\* The clock of SpecPing stops at MaxPingTime.
MaxPingTime == 20
PingConn == 1

TockPing ==
    /\ now < MaxPingTime
    /\ now' = now + ClockStep
    /\ UNCHANGED clientVars
    /\ UNCHANGED << serverVars, managerVars, connVars, netVars, roomVars >>

\* The peer of a logged-in connection writes a _ping.
PeerPing(c) ==
    /\ c \in accepted
    /\ conn[c].user # None
    /\ sock[c].peer = "open"
    /\ sock[c].c2s = << >>
    /\ nsent[c] < MaxPeerSends
    /\ sock' = [sock EXCEPT ![c].c2s = @ \o Frame(Ping)]
    /\ nsent' = [nsent EXCEPT ![c] = @ + 1]
    /\ UNCHANGED clientVars
    /\ UNCHANGED << now, serverVars, managerVars, connVars, roomVars, benchVars >>

NextPing ==
    \/ TockPing
    \/ ListenerAccept(PingConn)
    \/ ManagerCycle
    \/ ManagerTick
    \/ RoomCheck
    \/ RoomHandle
    \/ RoomSleep
    \/ PeerSend(PingConn)
    \/ PeerPing(PingConn)

SpecPing == Init /\ [][NextPing]_vars

(***************************************************************************)
(* SpecReader: a MessageReader on its own.  The frame of one message      *)
(* arrives at its socket in chunks of any size, read is called at any     *)
(* time, and the peer may close its socket having written any part.       *)
(* unit holds the message, the bytes yet to arrive (pending), the bytes   *)
(* in the socket (buf), the reader (rd), what the last read did (out),    *)
(* the messages returned (got), the number of chunks, and whether a read  *)
(* has met would-block in the middle of the frame.                         *)
(***************************************************************************)
systemVars ==
    << now, serverVars, managerVars, connVars, sock, nsent, frag, roomVars,
       clientVars >>

Welcome == Message("_welcome", [salt |-> << 65 >>])
ReaderMessages == {WhatTimeIsIt, ItIsNoon, Welcome}

InitReader ==
    /\ Start /\ frag = TRUE
    /\ \E m \in ReaderMessages :
        unit = [msg |-> m, pending |-> Frame(m), buf |-> << >>,
                peer |-> "open", rd |-> NewReader, out |-> "none",
                got |-> << >>, chunks |-> 0, blocked |-> FALSE]

\* Some more bytes arrive.
Arrive ==
    /\ unit.peer = "open"
    /\ \E n \in 1..Len(unit.pending) :
        unit' = [unit EXCEPT !.buf = @ \o Take(unit.pending, n),
                            !.pending = Drop(@, n),
                            !.chunks = @ + 1]
    /\ UNCHANGED systemVars

\* The peer closes its socket; what it has not written never arrives.
ReaderPeerClose ==
    /\ unit.peer = "open"
    /\ unit' = [unit EXCEPT !.peer = "closed", !.pending = << >>]
    /\ UNCHANGED systemVars

\* The unit once read has returned x.
UnitRead(x) ==
    [unit EXCEPT
        !.rd = x.r, !.buf = x.rest, !.out = x.out,
        !.got = IF x.out = "msg" THEN Append(@, x.msg) ELSE @,
        !.blocked = @ \/ (unit.buf = << >> /\ unit.peer = "open"
                          /\ unit.rd # NewReader)]

\* One call of MessageReader.read.
ReaderRead ==
    /\ unit' = UnitRead(Read(unit.rd, unit.buf, unit.peer))
    /\ UNCHANGED systemVars

NextReader ==
    \/ Arrive
    \/ ReaderPeerClose
    \/ ReaderRead

SpecReader == InitReader /\ [][NextReader]_vars

(***************************************************************************)
(* SpecFrames: a MessageReader on its own that is sent a frame no message *)
(* has, complete with its length, and the frame of a _ping behind it, in  *)
(* chunks of any size.  unit is that of SpecReader, with the frame (bad)  *)
(* and whether a read has raised for its contents (raised).               *)
(***************************************************************************)
\* Frames with a body of the length they announce that is no message: no
\* body at all, a body shorter than an id, an id no definition has, the
\* body of a _welcome cut within its fixed part and within its salt.
KnownBody == Pack(Welcome)
BadFrames ==
    {PackI32(0),
     PackI32(2) \o Take(KnownBody, 2),
     Garbage,
     PackI32(6) \o Take(KnownBody, 6),
     PackI32(Len(KnownBody) - 1) \o Take(KnownBody, Len(KnownBody) - 1)}

InitFrames ==
    /\ Start /\ frag = TRUE
    /\ \E f \in BadFrames :
        unit = [bad |-> f, pending |-> f \o Frame(Ping), buf |-> << >>,
                peer |-> "open", rd |-> NewReader, out |-> "none",
                got |-> << >>, chunks |-> 0, blocked |-> FALSE,
                raised |-> FALSE]

\* One call of MessageReader.read.
FramesRead ==
    /\ unit' = [UnitRead(Read(unit.rd, unit.buf, unit.peer)) EXCEPT
                  !.raised = @ \/ Read(unit.rd, unit.buf, unit.peer).out
                                    = "unpackerr"]
    /\ UNCHANGED systemVars

NextFrames ==
    \/ Arrive
    \/ ReaderPeerClose
    \/ FramesRead

SpecFrames == InitFrames /\ [][NextFrames]_vars

(***************************************************************************)
(* SpecFrameStream: a MessageReader on its own that is sent the frames of *)
(* MaxFrames messages back to back, in chunks of any size.  unit is that  *)
(* of SpecReader, with the messages sent (msgs).                          *)
(***************************************************************************)
MaxFrames == 2

InitFrameStream ==
    /\ Start /\ frag = TRUE
    /\ \E ms \in [1..MaxFrames -> ReaderMessages] :
        unit = [msgs |-> ms, pending |-> QueueAll(<< >>, ms), buf |-> << >>,
                peer |-> "open", rd |-> NewReader, out |-> "none",
                got |-> << >>, chunks |-> 0, blocked |-> FALSE]

NextFrameStream ==
    \/ Arrive
    \/ ReaderRead

SpecFrameStream == InitFrameStream /\ [][NextFrameStream]_vars

(***************************************************************************)
(* SpecWriter: a MessageWriter on its own.  Its owner calls queue and     *)
(* send in any order; within send, every socket.send takes some of the    *)
(* buffer or reports would-block.  unit holds the writer's buffer (buff), *)
(* the bytes the socket has taken (wire), the messages queued, where the  *)
(* owner is (pc), how the last send returned (ret), and whether a send    *)
(* has met would-block and a message was queued behind unsent bytes.      *)
(***************************************************************************)
\* Number of messages queued on the writer.
MaxQueued == 2
WriterMessages == {WhatTimeIsIt, ItIsNoon}

InitWriter ==
    /\ Start /\ frag = TRUE
    /\ unit = [buff |-> << >>, wire |-> << >>, queued |-> << >>,
               pc |-> "idle", ret |-> "none", blocked |-> FALSE,
               mixed |-> FALSE]

\* MessageWriter.queue
WriterQueueCall ==
    /\ unit.pc = "idle"
    /\ Len(unit.queued) < MaxQueued
    /\ \E m \in WriterMessages :
        unit' = [unit EXCEPT !.buff = WriterQueue(@, m),
                            !.queued = Append(@, m),
                            !.mixed = @ \/ unit.buff # << >>]
    /\ UNCHANGED systemVars

\* "while self._buff": where send is once the buffer is buff.
WhileBuff(buff) ==
    IF buff = << >> THEN [pc |-> "idle", ret |-> "empty"]
    ELSE [pc |-> "send", ret |-> "none"]

\* MessageWriter.send is called.
WriterSendCall ==
    /\ unit.pc = "idle"
    /\ unit' = [unit EXCEPT !.pc = WhileBuff(unit.buff).pc,
                            !.ret = WhileBuff(unit.buff).ret]
    /\ UNCHANGED systemVars

\* "n = self._conn.send(self._buff); self._buff = self._buff[n:]"
SocketTakes ==
    /\ unit.pc = "send"
    /\ \E n \in 1..Len(unit.buff) :
        unit' = [unit EXCEPT
                    !.wire = @ \o WriterSend(unit.buff, n).sent,
                    !.buff = WriterSend(unit.buff, n).buff,
                    !.pc = WhileBuff(WriterSend(unit.buff, n).buff).pc,
                    !.ret = WhileBuff(WriterSend(unit.buff, n).buff).ret]
    /\ UNCHANGED systemVars

\* "except socket.error as e: if e.errno == errno.EWOULDBLOCK: return"
SocketWouldBlock ==
    /\ unit.pc = "send"
    /\ unit' = [unit EXCEPT !.pc = "idle", !.ret = "wouldblock",
                            !.blocked = TRUE]
    /\ UNCHANGED systemVars

NextWriter ==
    \/ WriterQueueCall
    \/ WriterSendCall
    \/ SocketTakes
    \/ SocketWouldBlock

SpecWriter == InitWriter /\ [][NextWriter]_vars

(***************************************************************************)
(* SpecCodec: pack and unpack on their own.  A message of a registered    *)
(* definition, its arguments drawn from samples of their kinds, is packed *)
(* and the bytes are unpacked.                                             *)
(***************************************************************************)
\* 0.0, 0.5, -1.5 and 1.0 + 2^-52
Zero == [sign |-> 0, exp |-> 0, frac |-> 0, low |-> << 0, 0, 0, 0, 0, 0 >>]
Half == [sign |-> 0, exp |-> 1022, frac |-> 0, low |-> << 0, 0, 0, 0, 0, 0 >>]
MinusOneAndHalf ==
    [sign |-> 1, exp |-> 1023, frac |-> 8, low |-> << 0, 0, 0, 0, 0, 0 >>]
NextAfterOne ==
    [sign |-> 0, exp |-> 1023, frac |-> 0, low |-> << 1, 0, 0, 0, 0, 0 >>]

\* The samples of every kind: ints up to the ends of the 32-bit range,
\* strs with and without code points above 127 ('a' is 97, e-acute 233),
\* bytes, floats and arrays of floats.
IntSamples == << 0, -1, 2147483647, -2147483647 - 1 >>
StrSamples == << << >>, << 97 >>, << 233 >>, << 233, 97 >> >>
BytesSamples == << << >>, << 0 >>, << 255, 128 >>, << 97, 0, 98 >> >>
FloatSamples == << Zero, Half, MinusOneAndHalf, NextAfterOne >>
ArraySamples ==
    << << >>, << Half >>, << Zero, MinusOneAndHalf >>,
       << NextAfterOne, Half, Half >> >>
NSamples == Len(IntSamples)

SampleOf(kind, k) ==
    IF kind = "int" THEN IntSamples[k]
    ELSE IF kind = "str" THEN StrSamples[k]
    ELSE IF kind = "bytes" THEN BytesSamples[k]
    ELSE IF kind = "float" THEN FloatSamples[k]
    ELSE ArraySamples[k]

\* Message(name, **values), the value of every argument being the sample
\* that choice gives.
SampleMessage(d, choice) ==
    Message(d.name,
        [a \in ArgNames(d.args) |->
            SampleOf(d.args[ArgIndex(d.args, a)][2], choice[a])])

InitCodec ==
    /\ Start /\ frag = TRUE
    /\ \E i \in 1..Len(Definitions) :
        \E choice \in [ArgNames(Definitions[i].args) -> 1..NSamples] :
            unit = [msg |-> SampleMessage(Definitions[i], choice),
                    stage |-> "message", data |-> << >>,
                    result |-> UnpackError]

\* message.pack()
CodecPack ==
    /\ unit.stage = "message"
    /\ unit' = [unit EXCEPT !.stage = "packed", !.data = Pack(unit.msg)]
    /\ UNCHANGED systemVars

\* Message.unpack(data)
CodecUnpack ==
    /\ unit.stage = "packed"
    /\ unit' = [unit EXCEPT !.stage = "unpacked", !.result = Unpack(unit.data)]
    /\ UNCHANGED systemVars

NextCodec ==
    \/ CodecPack
    \/ CodecUnpack

SpecCodec == InitCodec /\ [][NextCodec]_vars

(***************************************************************************)
(* SpecRegistry: the registries of MessageDefinition in two processes     *)
(* (a server and a client) that make the same calls in the same order:    *)
(* MessageDefinition(name, **arguments), DefinitionList.add and           *)
(* DefinitionList.instantiate.  A call names its keyword arguments in an  *)
(* order of its own in each process.  Names are strs, sequences of code   *)
(* points.  unit holds the registry (reg) and the DefinitionList (list)   *)
(* of each process, the number of calls made, the last call, and the      *)
(* names whose arguments the two processes have named in different        *)
(* orders (differ).                                                        *)
(***************************************************************************)
\* Number of calls the two processes make.
MaxCalls == 3
Peers == {1, 2}

\* NAME = ^[a-zA-Z_]\w*$ and ARGS = ^[a-zA-Z]\w*$, on ASCII code points.  $
\* also matches before a line feed that ends the string.
IsLetter(c) == c \in 65..90 \/ c \in 97..122
IsWord(c) == IsLetter(c) \/ c \in 48..57 \/ c = 95
ChompLf(s) ==
    IF Len(s) >= 2 /\ s[Len(s)] = 10 THEN SubSeq(s, 1, Len(s) - 1) ELSE s
WordTail(s) == \A i \in 2..Len(s) : IsWord(s[i])
NAME(s) ==
    /\ s # << >>
    /\ IsLetter(s[1]) \/ s[1] = 95
    /\ WordTail(ChompLf(s))
ARGS(s) ==
    /\ s # << >>
    /\ IsLetter(s[1])
    /\ WordTail(ChompLf(s))

\* a < b for strs: by code point, a proper prefix first.
RECURSIVE LessStr(_, _)
LessStr(a, b) ==
    IF b = << >> THEN FALSE
    ELSE IF a = << >> THEN TRUE
    ELSE IF a[1] # b[1] THEN a[1] < b[1]
    ELSE LessStr(Tail(a), Tail(b))

\* sorted(_arguments.items(), key=lambda x: x[0])
RECURSIVE InsertSorted(_, _)
InsertSorted(x, s) ==
    IF s = << >> THEN << x >>
    ELSE IF LessStr(x[1], s[1][1]) THEN << x >> \o s
    ELSE << s[1] >> \o InsertSorted(x, Tail(s))
RECURSIVE SortedArguments(_)
SortedArguments(arguments) ==
    IF arguments = << >> THEN << >>
    ELSE InsertSorted(Head(arguments), SortedArguments(Tail(arguments)))

\* The kinds MessageDefinition.__init__ knows.
KnownKind(kind) == kind \in {"int", "float", "str", "bytes", "?f", "?d"}
\* The loop over the sorted arguments raises on the first bad one.
ArgumentsOk(args) ==
    \A i \in 1..Len(args) : ARGS(args[i][1]) /\ KnownKind(args[i][2])

\* The static variables _names, _ids and _last_id.
EmptyRegistry == [names |-> << >>, ids |-> << >>, last_id |-> 0]
\* _names and _ids are dicts: sequences of (key, value) pairs here, a new
\* key appended, as a dict keeps insertion order.
Keys(dict) == {dict[i][1] : i \in 1..Len(dict)}
Lookup(dict, key) == dict[CHOOSE i \in 1..Len(dict) : dict[i][1] = key][2]
\* dict[key] = value
Put(dict, key, value) ==
    IF key \in Keys(dict)
    THEN [i \in 1..Len(dict) |->
            IF dict[i][1] = key THEN << key, value >> ELSE dict[i]]
    ELSE Append(dict, << key, value >>)

\* MessageDefinition.__init__, from "Assign a unique ID" on.
Register(reg, d) ==
    [names |-> Put(reg.names, d.name, d),
     ids |-> Put(reg.ids, d.id, d),
     last_id |-> d.id]

\* MessageDefinition(name, **arguments): [ok, reg]; not ok stands for the
\* ValueError (or the TypeError of the message of an unknown kind).
Raised(reg) == [ok |-> FALSE, reg |-> reg]
Defined_replaces(reg, name, args) ==
    IF ~NAME(name) \/ ~ArgumentsOk(args) THEN Raised(reg)
    ELSE [ok |-> TRUE,
          reg |-> Register(reg,
            [name |-> name, id |-> reg.last_id + 1, args |-> args])]
Defined(reg, name, args) ==
    IF ~NAME(name) THEN Raised(reg)
    ELSE IF name \in Keys(reg.names) THEN Raised(reg)
    ELSE IF ~ArgumentsOk(args) THEN Raised(reg)
    ELSE [ok |-> TRUE,
          reg |-> Register(reg,
            [name |-> name, id |-> reg.last_id + 1, args |-> args])]
Unsorted(arguments) == arguments
StoredArguments(arguments) == SortedArguments(arguments)
MessageDefinition(reg, name, arguments) ==
    Defined(reg, name, StoredArguments(arguments))

\* Code points of the names wevis/__init__.py uses.
N_ping == << 95, 112, 105, 110, 103 >>
N_pong == << 95, 112, 111, 110, 103 >>
N_welcome == << 95, 119, 101, 108, 99, 111, 109, 101 >>
N_login == << 95, 108, 111, 103, 105, 110 >>
N_loginReject == N_login \o << 82, 101, 106, 101, 99, 116 >>
N_loginAccept == N_login \o << 65, 99, 99, 101, 112, 116 >>
ReservedCalls ==
    << << N_ping, << >> >>,
       << N_pong, << >> >>,
       << N_welcome, << << << 115, 97, 108, 116 >>, "str" >> >> >>,
       << N_login,
          << << << 117, 115, 101, 114, 110, 97, 109, 101 >>, "str" >>,
             << << 112, 97, 115, 115, 119, 111, 114, 100 >>, "str" >>,
             << << 109, 97, 106, 111, 114 >>, "int" >>,
             << << 109, 105, 110, 111, 114 >>, "int" >>,
             << << 114, 101, 118, 105, 115, 105, 111, 110 >>, "int" >> >> >>,
       << N_loginReject, << << << 114, 101, 97, 115, 111, 110 >>, "str" >> >> >>,
       << N_loginAccept, << >> >> >>

\* The registry once wevis has been imported: the first k reserved
\* definitions made.
RECURSIVE Imported(_)
Imported(k) ==
    IF k = 0 THEN EmptyRegistry
    ELSE MessageDefinition(Imported(k - 1), ReservedCalls[k][1],
                           ReservedCalls[k][2]).reg

\* DefinitionList.add: [ok, list]
add(list, name, arguments) ==
    IF name \in Keys(list) THEN [ok |-> FALSE, list |-> list]
    ELSE [ok |-> TRUE, list |-> Put(list, name, arguments)]

\* DefinitionList.instantiate: the definitions are made in the order they
\* were added; the first that raises ends the loop, and the list is then
\* not cleared.
RECURSIVE InstantiateFrom(_, _, _)
InstantiateStep(made, list, k) ==
    IF made.ok THEN InstantiateFrom(made.reg, list, k + 1)
    ELSE [ok |-> FALSE, reg |-> made.reg, list |-> list]
InstantiateFrom(reg, list, k) ==
    IF k > Len(list) THEN [ok |-> TRUE, reg |-> reg, list |-> << >>]
    ELSE InstantiateStep(MessageDefinition(reg, list[k][1], list[k][2]),
                         list, k)
instantiate(reg, list) == InstantiateFrom(reg, list, 1)

\* The calls made: a name and its keyword arguments, as a set.  'a' is 97,
\* 'b' 98, '1' 49, '-' 45.
A == << 97 >>
B == << 98 >>
AB == << 97, 98 >>
RegistryCalls ==
    { [name |-> AB, arguments |-> {<< B, "int" >>, << AB, "str" >>, << A, "float" >>}],
      [name |-> B, arguments |-> {<< B, "str" >>, << A, "int" >>}],
      [name |-> A, arguments |-> {}],
      [name |-> N_ping, arguments |-> {}],
      [name |-> << 49, 97 >>, arguments |-> {}],
      [name |-> << 97, 10 >>, arguments |-> {}],
      [name |-> << 97, 45 >>, arguments |-> {<< A, "int" >>}],
      [name |-> << 98, 97 >>, arguments |-> {<< << 49 >>, "int" >>}],
      [name |-> << 98, 98 >>, arguments |-> {<< A, "list" >>}] }
\* The orders in which a call can name its keyword arguments.
Orders(S) ==
    {o \in [1..Cardinality(S) -> S] : \A x \in S : \E i \in DOMAIN o : o[i] = x}

InitRegistry ==
    /\ Start /\ frag = FALSE
    /\ unit = [reg |-> [p \in Peers |-> Imported(Len(ReservedCalls))],
               list |-> [p \in Peers |-> << >>],
               ncalls |-> 0, differ |-> {},
               last |-> [op |-> "import", name |-> << >>,
                         ok |-> [p \in Peers |-> TRUE]]]

\* Both processes call MessageDefinition(name, **arguments).
Define ==
    /\ unit.ncalls < MaxCalls
    /\ \E call \in RegistryCalls :
        \E order \in [Peers -> Orders(call.arguments)] :
            unit' = [unit EXCEPT
                !.reg = [p \in Peers |->
                    MessageDefinition(unit.reg[p], call.name, order[p]).reg],
                !.ncalls = @ + 1,
                !.differ = IF order[1] # order[2]
                           THEN @ \cup {call.name} ELSE @,
                !.last = [op |-> "define", name |-> call.name,
                          ok |-> [p \in Peers |->
                            MessageDefinition(unit.reg[p], call.name,
                                              order[p]).ok]]]
    /\ UNCHANGED systemVars

\* Both processes call defs.add(name, **arguments).
ListAdd ==
    /\ unit.ncalls < MaxCalls
    /\ \E call \in RegistryCalls :
        \E order \in [Peers -> Orders(call.arguments)] :
            unit' = [unit EXCEPT
                !.list = [p \in Peers |->
                    add(unit.list[p], call.name, order[p]).list],
                !.ncalls = @ + 1,
                !.differ = IF order[1] # order[2]
                           THEN @ \cup {call.name} ELSE @,
                !.last = [op |-> "add", name |-> call.name,
                          ok |-> [p \in Peers |->
                            add(unit.list[p], call.name, order[p]).ok]]]
    /\ UNCHANGED systemVars

\* Both processes call defs.instantiate().
ListInstantiate ==
    /\ unit.ncalls < MaxCalls
    /\ unit' = [unit EXCEPT
        !.reg = [p \in Peers |-> instantiate(unit.reg[p], unit.list[p]).reg],
        !.list = [p \in Peers |-> instantiate(unit.reg[p], unit.list[p]).list],
        !.ncalls = @ + 1,
        !.last = [op |-> "instantiate", name |-> << >>,
                  ok |-> [p \in Peers |->
                    instantiate(unit.reg[p], unit.list[p]).ok]]]
    /\ UNCHANGED systemVars

NextRegistry ==
    \/ Define
    \/ ListAdd
    \/ ListInstantiate

SpecRegistry == InitRegistry /\ [][NextRegistry]_vars

(***************************************************************************)
(* SpecServer: the threads of a server.  The main thread calls            *)
(* Server.launch, which starts the Server thread; Server.run starts the   *)
(* Manager, the Listener and the Room, parks on the halt flag, waits for  *)
(* the three to end and closes the listening socket.  One peer connects,  *)
(* writes frames and may reset its socket, and the application may call   *)
(* Server.stop or interrupt launch.  unit holds the Server's status, the  *)
(* position of the Server thread (run), of the Listener (listener) and of *)
(* the main thread (launch), the threads started, whether the listening   *)
(* socket is closed, and what launch raised.                               *)
(***************************************************************************)
InitServer ==
    /\ Start /\ frag = FALSE
    /\ unit = [status |-> "PRE_RUN", run |-> "unstarted",
               listener |-> "listen", started |-> {}, closed |-> FALSE,
               launch |-> "idle", raised |-> None]

serverOnly ==
    << now, managerVars, connVars, sock, nsent, frag, roomVars, clientVars >>

\* Server.launch: self.start()
LaunchStart ==
    /\ unit.launch = "idle"
    /\ unit' = [unit EXCEPT !.launch = "poll", !.run = "begin"]
    /\ UNCHANGED << serverVars, serverOnly >>

\* Server.launch: the Server thread is no longer alive; "finally:
\* self.stop()" and "if self._exception: raise self._exception".
LaunchEnd ==
    /\ unit.launch = "poll"
    /\ unit.run = "done"
    /\ halt' = TRUE
    /\ unit' = [unit EXCEPT !.launch = "done", !.raised = exception]
    /\ UNCHANGED << exception, serverOnly >>

\* Server.launch: a KeyboardInterrupt in time.sleep; "finally: self.stop()"
\* and the interrupt leaves launch.
LaunchInterrupt ==
    /\ unit.launch = "poll"
    /\ unit.run # "done"
    /\ halt' = TRUE
    /\ unit' = [unit EXCEPT !.launch = "done",
                            !.raised = Some("KeyboardInterrupt")]
    /\ UNCHANGED << exception, serverOnly >>

\* Server.run: the status becomes RUNNING and the halt flag is cleared.
ServerBegin ==
    /\ unit.run = "begin"
    /\ halt' = FALSE
    /\ unit' = [unit EXCEPT !.status = "RUNNING", !.run = "start_manager"]
    /\ UNCHANGED << exception, serverOnly >>

\* Server.run: self._manager.start(), self._listener.start(),
\* self._room.start()
StartNext(at) ==
    IF at = "start_manager" THEN "start_listener"
    ELSE IF at = "start_listener" THEN "start_room"
    ELSE "park"
ServerStartWorker ==
    /\ unit.run \in {"start_manager", "start_listener", "start_room"}
    /\ unit' = [unit EXCEPT !.started = @ \cup {unit.run},
                            !.run = StartNext(unit.run)]
    /\ UNCHANGED << serverVars, serverOnly >>

\* Server.run: "while not self._halt.is_set(): time.sleep(...)", left once
\* the flag is set.
ServerPark ==
    /\ unit.run = "park"
    /\ halt
    /\ unit' = [unit EXCEPT !.run = "join_listener"]
    /\ UNCHANGED << serverVars, serverOnly >>

\* Server.run: "while self._listener.is_alive()", and the same for the
\* Manager and the Room.
ListenerAlive ==
    "start_listener" \in unit.started /\ unit.listener # "stopped"
ManagerAlive == "start_manager" \in unit.started /\ mgr_pc # "stopped"
RoomAlive == "start_room" \in unit.started /\ room_pc # "stopped"
\* A Server that does not wait for the Room.
ServerJoin_hasty ==
    /\ \/ unit.run = "join_listener" /\ ~ListenerAlive
          /\ unit' = [unit EXCEPT !.run = "join_manager"]
       \/ unit.run = "join_manager" /\ ~ManagerAlive
          /\ unit' = [unit EXCEPT !.run = "join_room"]
       \/ unit.run = "join_room"
          /\ unit' = [unit EXCEPT !.run = "close"]
    /\ UNCHANGED << serverVars, serverOnly >>
ServerJoin ==
    /\ \/ unit.run = "join_listener" /\ ~ListenerAlive
          /\ unit' = [unit EXCEPT !.run = "join_manager"]
       \/ unit.run = "join_manager" /\ ~ManagerAlive
          /\ unit' = [unit EXCEPT !.run = "join_room"]
       \/ unit.run = "join_room" /\ ~RoomAlive
          /\ unit' = [unit EXCEPT !.run = "close"]
    /\ UNCHANGED << serverVars, serverOnly >>

\* Server.run: self._sock.close()
ServerClose ==
    /\ unit.run = "close"
    /\ unit' = [unit EXCEPT !.closed = TRUE, !.run = "post"]
    /\ UNCHANGED << serverVars, serverOnly >>

\* Server.run: self._status = Server.POST_RUN, and the thread ends.
ServerPostRun ==
    /\ unit.run = "post"
    /\ unit' = [unit EXCEPT !.status = "POST_RUN", !.run = "done"]
    /\ UNCHANGED << serverVars, serverOnly >>

ServerThread ==
    \/ ServerBegin
    \/ ServerStartWorker
    \/ ServerPark
    \/ ServerJoin
    \/ ServerClose
    \/ ServerPostRun

\* Listener.run: self._server.socket.listen(), which may raise (the except
\* around the loop calls Server.stop(e)).
\* A Listener whose exception ends the thread and is not passed on.
ListenerListen_quiet ==
    /\ "start_listener" \in unit.started
    /\ unit.listener = "listen"
    /\ \/ unit' = [unit EXCEPT !.listener = "check"]
       \/ unit' = [unit EXCEPT !.listener = "stopped"]
    /\ UNCHANGED << serverVars, serverOnly >>
ListenerListen ==
    /\ "start_listener" \in unit.started
    /\ unit.listener = "listen"
    /\ \/ /\ unit' = [unit EXCEPT !.listener = "check"]
          /\ UNCHANGED serverVars
       \/ /\ unit' = [unit EXCEPT !.listener = "stopped"]
          /\ halt' = TRUE
          /\ exception' = Some("OSError")
    /\ UNCHANGED serverOnly

\* Listener.run: "while not self._server.halt_event.is_set()"
ListenerCheck ==
    /\ unit.listener = "check"
    /\ unit' = [unit EXCEPT !.listener = IF halt THEN "stopped" ELSE "accept"]
    /\ UNCHANGED << serverVars, serverOnly >>

\* Listener.run: accept on the non-blocking socket returns the connection
\* of the peer, which Manager.add queues, or raises socket.error (nobody
\* is connecting) and the Listener sleeps.
ListenerTry ==
    /\ unit.listener = "accept"
    /\ unit' = [unit EXCEPT !.listener = "check"]
    /\ \/ /\ PingConn \notin accepted
          /\ accepted' = accepted \cup {PingConn}
          /\ incoming' = Append(incoming, PingConn)
       \/ UNCHANGED << accepted, incoming >>
    /\ UNCHANGED << now, serverVars, connections, user_counts, mgr_pc, mgr_i,
                    removals, connVars, sock, nsent, frag, roomVars,
                    clientVars >>

ListenerThread ==
    \/ ListenerListen
    \/ ListenerCheck
    \/ ListenerTry

\* The Manager and the Room, once started.
ManagerStarted == "start_manager" \in unit.started
RoomStarted == "start_room" \in unit.started
StartedManagerCycle == ManagerStarted /\ ManagerCycle
StartedManagerTick == ManagerStarted /\ ManagerTick
StartedRoomCheck == RoomStarted /\ RoomCheck
StartedRoomHandle == RoomStarted /\ RoomHandle
StartedRoomSleep == RoomStarted /\ RoomSleep
ManagerThread ==
    \/ StartedManagerCycle
    \/ StartedManagerTick
RoomThread ==
    \/ StartedRoomCheck
    \/ StartedRoomHandle
    \/ StartedRoomSleep

NextServer ==
    \/ LaunchStart
    \/ LaunchEnd
    \/ LaunchInterrupt
    \/ ServerBegin
    \/ ServerStartWorker
    \/ ServerPark
    \/ ServerJoin
    \/ ServerClose
    \/ ServerPostRun
    \/ ListenerListen
    \/ ListenerCheck
    \/ ListenerTry
    \/ StartedManagerCycle
    \/ StartedManagerTick
    \/ StartedRoomCheck
    \/ StartedRoomHandle
    \/ StartedRoomSleep
    \/ ServerStop
    \/ PeerSend(PingConn)
    \/ PeerReset(PingConn)

SpecServer == InitServer /\ [][NextServer]_vars

\* Scheduling: a thread that is runnable is given the processor again and
\* again.  Each thread is weakly fair: one that stays ready to take a step
\* of its run method takes one.  A step of a thread is a step that moves
\* the thread's own position, which no other thread changes; the Manager
\* and the Room that find nothing to do and no halt flag sleep, and are
\* not counted as ready.
ServerReady ==
    \/ unit.run \in {"begin", "start_manager", "start_listener",
                     "start_room", "close", "post"}
    \/ unit.run = "park" /\ halt
    \/ unit.run = "join_listener" /\ ~ListenerAlive
    \/ unit.run = "join_manager" /\ ~ManagerAlive
    \/ unit.run = "join_room" /\ ~RoomAlive
ServerMoved == ServerReady /\ unit'.run # unit.run
ListenerReady == ListenerAlive
ListenerMoved == ListenerReady /\ unit'.listener # unit.listener
ManagerReady ==
    ManagerStarted /\ (mgr_pc = "tick" \/ (mgr_pc = "cycle" /\ halt))
ManagerMoved == ManagerReady /\ (mgr_pc' # mgr_pc \/ mgr_i' # mgr_i)
RoomReady == RoomAlive
RoomMoved == RoomReady /\ (room_pc' # room_pc \/ handled' # handled)
LaunchReady == unit.launch = "poll" /\ unit.run = "done"
LaunchMoved == LaunchReady /\ unit'.launch # unit.launch
SpecServerFair ==
    /\ SpecServer
    /\ []<>(~ServerReady) \/ []<><<ServerMoved>>_vars
    /\ []<>(~ListenerReady) \/ []<><<ListenerMoved>>_vars
    /\ []<>(~ManagerReady) \/ []<><<ManagerMoved>>_vars
    /\ []<>(~RoomReady) \/ []<><<RoomMoved>>_vars
    /\ []<>(~LaunchReady) \/ []<><<LaunchMoved>>_vars

(***************************************************************************)
(* SpecLogin: a Client made with any version and password, the server     *)
(* (Listener, Manager, Room) and a second peer, which may log in as the   *)
(* same user before the client does.  The clock stands still.             *)
(***************************************************************************)
OtherConn == ClientConn + 1

\* Client(version, username, password): an old or a current version, the
\* right or a wrong password.
InitLogin ==
    /\ ServerStart /\ frag = FALSE /\ unit = None
    /\ \E major \in {0, 1}, password \in {PlainPassword, BadDigest} :
        client = [NewClient EXCEPT !.major = major, !.password = password]

NextLogin ==
    \/ ClientStart
    \/ ClientAccepted
    \/ ManagerCycle
    \/ ManagerTick
    \/ ClientWelcome
    \/ ClientResult
    \/ ClientStoreException
    \/ ClientRun
    \/ ClientClosed
    \/ ClientStop
    \/ ClientQueue(WhatTimeIsIt)
    \/ RoomCheck
    \/ RoomHandle
    \/ RoomSleep
    \/ ListenerAccept(OtherConn)
    \/ PeerSend(OtherConn)

SpecLogin == InitLogin /\ [][NextLogin]_vars

\* Scheduling: the client thread is weakly fair.  It is ready when it
\* waits in _connect for a message of which bytes have arrived, and every
\* step it then takes changes the client.
ClientReady ==
    \/ client.pc \in {"welcome", "result"} /\ Unread # << >>
    \/ client.pc = "store"
ClientMoved == ClientReady /\ client' # client
SpecLoginFair ==
    /\ SpecLogin
    /\ []<>(~ClientReady) \/ []<><<ClientMoved>>_vars

(***************************************************************************)
(* SpecClient: a Client, the thread of the application that uses it and a *)
(* program in the place of the server.  The application calls             *)
(* start_blocking and then receive_blocking, queue and stop; the program  *)
(* writes any frames to the client's socket and closes or resets it.      *)
(* Everything the client writes stays in sock[ClientConn].c2s.  unit      *)
(* holds the server's end of the socket (end), the number of frames       *)
(* written to it, the position of the application's thread (app), the     *)
(* names receive_blocking expects, how the calls of receive_blocking      *)
(* ended (results) and whether a message was in the queue when one of     *)
(* them found the halt flag set (lost).                                    *)
(***************************************************************************)
\* Number of frames the program writes, and of receive_blocking calls.
MaxServerWrites == 4
MaxReceives == 2

LoginAccept == Message("_loginAccept", NoArgs)
ServerFrames ==
    {Frame(Welcome), Frame(LoginAccept), Frame(Reject(InvalidCredentials)),
     Frame(Ping), Frame(ItIsNoon), Garbage}

InitClient ==
    /\ Start /\ frag = FALSE
    /\ unit = [end |-> "open", nwrites |-> 0, app |-> "idle",
               expected |-> {}, results |-> << >>, lost |-> FALSE]

clientOnly ==
    << now, serverVars, managerVars, connVars, nsent, frag, roomVars >>

\* The program writes a frame.
ServerWrites ==
    /\ unit.end = "open"
    /\ client.status # "PRE_RUN"
    /\ unit.nwrites < MaxServerWrites
    /\ \E f \in ServerFrames : sock' = [sock EXCEPT ![ClientConn].s2c = @ \o f]
    /\ unit' = [unit EXCEPT !.nwrites = @ + 1]
    /\ UNCHANGED << clientOnly, clientVars >>

\* The program closes its socket, or the connection is reset.
ServerEnds ==
    /\ unit.end = "open"
    /\ client.status # "PRE_RUN"
    /\ \E e \in {"closed", "reset"} : unit' = [unit EXCEPT !.end = e]
    /\ UNCHANGED << clientOnly, sock, clientVars >>

\* Client.start_blocking: self.start()
AppStartBlocking ==
    /\ unit.app = "idle"
    /\ unit' = [unit EXCEPT !.app = "wait"]
    /\ UNCHANGED << clientOnly, sock, clientVars >>

\* Client.run, started: up to the socket's connect in _connect, which
\* succeeds ...
StartedClientStart == unit.app # "idle" /\ ClientStart

\* ... or raises (nobody listens at the address).
ClientRefused ==
    /\ unit.app # "idle"
    /\ client.status = "PRE_RUN"
    /\ client' = ConnectFailed([client EXCEPT !.conn = "open"], OtherException)
    /\ UNCHANGED << clientOnly, netVars, app_sent >>

\* Client.start_blocking: "while self._status in (PRE_RUN, PRE_CONNECT)",
\* left.
AppStatusSeen ==
    /\ unit.app = "wait"
    /\ client.status \notin {"PRE_RUN", "PRE_CONNECT"}
    /\ unit' = [unit EXCEPT !.app = "check"]
    /\ UNCHANGED << clientOnly, sock, clientVars >>

\* Client.start_blocking: "if self._exception: raise ClientError(...)", or
\* the return.
AppStartReturns ==
    /\ unit.app = "check"
    /\ unit' = [unit EXCEPT
        !.app = IF client.exception # None THEN "start_raised" ELSE "ready"]
    /\ UNCHANGED << clientOnly, sock, clientVars >>

\* Client.receive_blocking(*expected), called.
AppReceiveBlocking ==
    /\ unit.app = "ready"
    /\ Len(unit.results) < MaxReceives
    /\ \E expected \in {{}, {"ItIs"}} :
        unit' = [unit EXCEPT !.app = "loop", !.expected = expected]
    /\ UNCHANGED << clientOnly, sock, clientVars >>

\* Client.receive_blocking: "while message is None and not
\* self._halt.is_set()"; with the flag set the loop is left and ClientError
\* raised.
AppLoopTest ==
    /\ unit.app = "loop"
    /\ unit' = IF client.halt
               THEN [unit EXCEPT !.app = "ready",
                        !.results = Append(@, [kind |-> "ClientError",
                                              expected |-> unit.expected,
                                              message |-> None]),
                        !.lost = @ \/ client.incoming # << >>]
               ELSE [unit EXCEPT !.app = "get"]
    /\ UNCHANGED << clientOnly, sock, clientVars >>

\* How receive_blocking ends once receive has returned message.
Received(expected, message) ==
    IF expected # {} /\ message.name \notin expected
    THEN [kind |-> "UnexpectedMessageError", expected |-> expected,
          message |-> Some(message)]
    ELSE [kind |-> "return", expected |-> expected, message |-> Some(message)]
\* A receive_blocking that returns the message whatever its name.
Received_any(expected, message) ==
    [kind |-> "return", expected |-> expected, message |-> Some(message)]

\* Client.receive_blocking: "message = self.receive()"; None sleeps and
\* goes back to the test.
AppReceive ==
    /\ unit.app = "get"
    /\ IF client.incoming = << >>
       THEN /\ unit' = [unit EXCEPT !.app = "loop"]
            /\ UNCHANGED client
       ELSE /\ unit' = [unit EXCEPT !.app = "ready",
                !.results = Append(@,
                    Received(unit.expected, Head(client.incoming)))]
            /\ client' = [client EXCEPT !.incoming = Tail(@)]
    /\ UNCHANGED << clientOnly, sock, app_sent >>

NextClient ==
    \/ ServerWrites
    \/ ServerEnds
    \/ AppStartBlocking
    \/ StartedClientStart
    \/ ClientRefused
    \/ AppStatusSeen
    \/ AppStartReturns
    \/ AppReceiveBlocking
    \/ AppLoopTest
    \/ AppReceive
    \/ ClientWelcome
    \/ ClientResult
    \/ ClientStoreException
    \/ ClientRun
    \/ ClientQueue(WhatTimeIsIt)
    \/ ClientStop

SpecClient == InitClient /\ [][NextClient]_vars

\* Scheduling: the client thread is weakly fair in its run loop.  A pass of
\* the loop has something to do when the halt flag is set, when there is
\* something to write or to read, or when the server's end is gone; it
\* then writes, reads or ends the loop.
RunReady ==
    /\ client.pc = "run"
    /\ \/ client.halt
       \/ client.outgoing # << >> \/ client.wbuf # << >>
       \/ Unread # << >>
       \/ ServerEnd # "open"
RunMoved ==
    /\ RunReady
    /\ \/ client'.pc # client.pc
       \/ client'.off # client.off
       \/ sock'[ClientConn].c2s # sock[ClientConn].c2s

\* SpecKeepalive: the same with an application that starts the client,
\* queues messages and stops it, and leaves what arrives in the incoming
\* queue.
NextKeepalive ==
    \/ ServerWrites
    \/ ServerEnds
    \/ AppStartBlocking
    \/ StartedClientStart
    \/ ClientRefused
    \/ AppStatusSeen
    \/ AppStartReturns
    \/ ClientWelcome
    \/ ClientResult
    \/ ClientStoreException
    \/ ClientRun
    \/ ClientQueue(WhatTimeIsIt)
    \/ ClientStop

SpecKeepalive == InitClient /\ [][NextKeepalive]_vars
SpecKeepaliveFair ==
    /\ SpecKeepalive
    /\ []<>(~RunReady) \/ []<><<RunMoved>>_vars

(***************************************************************************)
(* SpecTimeout: one connection under the Listener and the Manager, whose  *)
(* peer writes frames whole or in two parts, with the clock of SpecPing.  *)
(* unit holds the part of a frame the peer has yet to write (pending).    *)
(***************************************************************************)
\* The sizes of the first part of a frame: a part of its length, and its
\* length with a part of its body.
FirstParts == {2, 6}

InitTimeout == Start /\ frag = FALSE /\ unit = [pending |-> << >>]

\* The peer writes a frame whole.
PeerWhole(c) == unit.pending = << >> /\ PeerSend(c)

\* The peer writes the first bytes of a frame.
PeerPart(c) ==
    /\ c \in accepted
    /\ conn[c].alive
    /\ sock[c].peer = "open"
    /\ sock[c].c2s = << >>
    /\ unit.pending = << >>
    /\ nsent[c] < MaxPeerSends
    /\ \E f \in PeerFrames(c) : \E n \in FirstParts :
        /\ sock' = [sock EXCEPT ![c].c2s = @ \o Take(f, n)]
        /\ unit' = [unit EXCEPT !.pending = Drop(f, n)]
    /\ nsent' = [nsent EXCEPT ![c] = @ + 1]
    /\ UNCHANGED << now, serverVars, managerVars, connVars, roomVars, frag,
                    clientVars >>

\* The peer writes the rest of it.
PeerRest(c) ==
    /\ unit.pending # << >>
    /\ sock[c].peer = "open"
    /\ sock' = [sock EXCEPT
                    ![c].c2s = IF conn[c].alive THEN @ \o unit.pending ELSE @]
    /\ unit' = [unit EXCEPT !.pending = << >>]
    /\ UNCHANGED << now, serverVars, managerVars, connVars, roomVars, frag,
                    nsent, clientVars >>

NextTimeout ==
    \/ TockPing
    \/ ListenerAccept(PingConn)
    \/ ManagerCycle
    \/ ManagerTick
    \/ PeerWhole(PingConn)
    \/ PeerPart(PingConn)
    \/ PeerRest(PingConn)
    \/ PeerClose(PingConn)

SpecTimeout == InitTimeout /\ [][NextTimeout]_vars

(***************************************************************************)
(* SpecFlood: the Listener and the Manager with the ticks of a logged-in   *)
(* connection taken one read at a time, so that what its peer writes while *)
(* the loop of tick_normal runs is seen by the next read of that loop.     *)
(* unit.tick is where the Manager is in tick_normal: "idle" outside it,    *)
(* "read" before a call of self._reader.read(); unit.odd tells whether    *)
(* the loop of this tick has taken an odd number of turns.  The clock     *)
(* stands still.                                                           *)
(***************************************************************************)
NoTick == [tick |-> "idle", odd |-> FALSE]

InitFlood == Start /\ frag = FALSE /\ unit = NoTick

\* Connection.tick_normal up to its read loop: the outgoing queue goes to
\* the writer and the socket takes n bytes, or raises.
tick_normal_sent(v) ==
    LET v1 == [v EXCEPT !.cn.outgoing = << >>,
                        !.cn.wbuf = QueueAll(@, v.cn.outgoing)]
    IN {Sent(v1, n) : n \in SendSizes(Len(v1.cn.wbuf))}
        \cup (IF v1.peer # "open" /\ v1.cn.wbuf # << >>
              THEN {[v1 EXCEPT !.raised = TRUE]} ELSE {})

\* One turn of "while message:" in tick_normal: the message x of the last
\* read is handled; the loop goes on to the next read.
tick_normal_turn(v, t, x) == handle_messages(AfterRead(v, x), << x.msg >>, t)

\* The end of the loop, x being a read that returned no message or raised.
tick_normal_end(v, t, x) == tick_normal_check(AfterRead(v, x), t, x.out)

\* The Manager thread after a step w of the tick of connection c: stopped
\* by an exception, on to the next connection when the tick has returned,
\* and else still in the tick.
FloodStep(c, w, returned) ==
    /\ conn' = [conn EXCEPT ![c] = w.cn]
    /\ user_counts' = w.counts
    /\ calls' = [calls EXCEPT ![c] = w.calls]
    /\ sock' = [sock EXCEPT ![c].c2s = w.c2s, ![c].s2c = w.s2c]
    /\ queued' = [queued EXCEPT ![c] = w.queued]
    /\ room_in' = room_in \o [i \in 1..Len(w.room) |-> << c, w.room[i] >>]
    /\ IF w.raised
       THEN /\ mgr_pc' = "stopped"
            /\ halt' = TRUE
            /\ exception' = Some("socket.error")
            /\ unit' = NoTick
            /\ UNCHANGED mgr_i
       ELSE IF returned
       THEN /\ mgr_pc' = IF mgr_i = Len(connections) THEN "cycle" ELSE "tick"
            /\ mgr_i' = mgr_i + 1
            /\ unit' = NoTick
            /\ UNCHANGED << serverVars >>
       ELSE /\ unit' = [tick |-> "read",
                         odd |-> unit.tick = "read" /\ ~unit.odd]
            /\ UNCHANGED << mgr_pc, mgr_i, serverVars >>
    /\ UNCHANGED clientVars
    /\ UNCHANGED << now, accepted, incoming, connections, room_pc, handled,
                    nsent, frag, removals >>

\* c.tick() on a connection that is not logged in: tick_initial,
\* tick_login, or the return of tick on a closed connection.
FloodTickOther ==
    /\ mgr_pc = "tick"
    /\ unit.tick = "idle"
    /\ LET c == connections[mgr_i] IN
        /\ ~(conn[c].alive /\ conn[c].user # None)
        /\ \E w \in Tick(View(c), now) : FloodStep(c, w, TRUE)

\* c.tick() on a logged-in connection, up to the first read of tick_normal.
FloodTickSend ==
    /\ mgr_pc = "tick"
    /\ unit.tick = "idle"
    /\ LET c == connections[mgr_i] IN
        /\ conn[c].alive /\ conn[c].user # None
        /\ \E w \in tick_normal_sent(View(c)) : FloodStep(c, w, FALSE)

\* A call of self._reader.read() in tick_normal that returns a message,
\* and the turn of the loop that handles it.
FloodTickTurn ==
    /\ mgr_pc = "tick"
    /\ unit.tick = "read"
    /\ \E c \in {connections[mgr_i]} :
       \E x \in {Read(conn[c].rd, sock[c].c2s, sock[c].peer)} :
        /\ x.out = "msg"
        /\ \E w \in {tick_normal_turn(View(c), now, x)} : FloodStep(c, w, FALSE)

\* A call of self._reader.read() that returns None or raises: the loop
\* ends, the deadline is checked and tick returns.
FloodTickEnd ==
    /\ mgr_pc = "tick"
    /\ unit.tick = "read"
    /\ \E c \in {connections[mgr_i]} :
       \E x \in {Read(conn[c].rd, sock[c].c2s, sock[c].peer)} :
        /\ x.out # "msg"
        /\ \E w \in {tick_normal_end(View(c), now, x)} : FloodStep(c, w, TRUE)

\* A logged-in peer that keeps sending: it writes a _pong frame whenever
\* the server has read the one before, any number of times.
PeerFlood(c) ==
    /\ c \in accepted
    /\ conn[c].alive /\ conn[c].user # None
    /\ sock[c].peer = "open"
    /\ sock[c].c2s = << >>
    /\ sock' = [sock EXCEPT ![c].c2s = Frame(Pong)]
    /\ UNCHANGED clientVars
    /\ UNCHANGED << now, serverVars, managerVars, connVars, roomVars, nsent,
                    benchVars >>

NextFlood ==
    \/ \E c \in Conns : ListenerAccept(c)
    \/ ManagerCycle
    \/ FloodTickOther
    \/ FloodTickSend
    \/ FloodTickTurn
    \/ FloodTickEnd
    \/ \E c \in Conns : PeerSend(c)
    \/ \E c \in Conns : PeerFlood(c)
    \/ \E c \in Conns : PeerClose(c)
    \/ ServerStop

SpecFlood == InitFlood /\ [][NextFlood]_vars

\* Where the Manager thread is.  Each of its statements changes it: a tick
\* through mgr_i or unit, the top of the loop through mgr_pc or by setting
\* mgr_i back to 1; no other thread does.
managerAt == << mgr_pc, mgr_i, unit >>

\* Manager.run has a next statement that changes the state: in a tick,
\* and at the top of the loop when the halt flag is set or there is a
\* connection to sweep, to admit or to tick.
ManagerRunning ==
    \/ mgr_pc = "tick"
    \/ mgr_pc = "cycle" /\ (halt \/ incoming # << >> \/ connections # << >>)

\* A step of the Manager thread as managerAt shows it: a step that changes
\* managerAt is a step of ManagerCycle or of one of the FloodTick actions,
\* and one of these is enabled exactly when ManagerRunning holds.
ManagerMoves ==
    /\ ManagerRunning
    /\ mgr_pc' \in {"cycle", "tick", "stopped"}
    /\ mgr_i' \in 1..(NConn + 1)
    /\ unit' \in {[tick |-> t, odd |-> o] : t \in {"idle", "read"},
                                            o \in BOOLEAN}

\* The Manager thread is scheduled: as long as Manager.run has a next
\* statement, it is executed.
SpecFloodFair == SpecFlood /\ WF_managerAt(ManagerMoves)

(***************************************************************************)
(* What the properties below read off a state of Spec.  No peer of Spec   *)
(* reads its socket and no Room thread runs, so sock[c].s2c is everything *)
(* the server wrote on connection c and room_in everything handed to      *)
(* Room.send.                                                              *)
(***************************************************************************)
Range(s) == {s[i] : i \in 1..Len(s)}

\* The messages a reader of everything written on connection c gets.
SentMessages(c) == ReadAll(NewReader, sock[c].s2c, "open", << >>).msgs
SentNames(c) == {m.name : m \in Range(SentMessages(c))}
\* The reasons of the rejections written on connection c.
Rejections(c) ==
    {m.values.reason :
        m \in {x \in Range(SentMessages(c)) : x.name = "_loginReject"}}

\* The connections that have had a message handed to the room.
InRoom == {room_in[i][1] : i \in 1..Len(room_in)}

\* Connection c is in the state AWAITING_LOGIN.
AwaitingLogin(c) ==
    conn[c].alive /\ conn[c].salt # None /\ conn[c].user = None

\* This step is a tick of connection c that read a message while awaiting
\* login and has written its answer (no exception left the tick).
LoginStep(c) ==
    /\ AwaitingLogin(c)
    /\ mgr_pc = "tick" /\ connections[mgr_i] = c
    /\ calls'[c] # calls[c]
    /\ sock'[c].s2c # sock[c].s2c

\* The message that tick read, and the frame it wrote.
LoginMessage(c) == Unpack(Drop(sock[c].c2s, 4)).msg
Answer(c) == Drop(sock'[c].s2c, Len(sock[c].s2c))

(***************************************************************************)
(* C1: on every connection the first frame the server writes is _welcome; *)
(* a _loginAccept or _loginReject is written only once a message has been *)
(* read from the client in tick_login; and a message is handed to the     *)
(* room only on a connection on which _loginAccept has been written.      *)
(***************************************************************************)
C1_HandshakeOrder ==
    \A c \in Conns :
        /\ SentMessages(c) # << >> => SentMessages(c)[1].name = "_welcome"
        /\ SentNames(c) \cap {"_loginAccept", "_loginReject"} # {}
            => "read" \in Range(calls[c])
        /\ c \in InRoom => "_loginAccept" \in SentNames(c)

\* A connection that was welcomed and accepted and has had a message handed
\* to the room.
C1_Witness ==
    \E c \in Conns :
        /\ c \in InRoom
        /\ Len(SentMessages(c)) >= 2
        /\ SentMessages(c)[2].name = "_loginAccept"

(***************************************************************************)
(* C2: a _login read while awaiting login is answered in the order        *)
(* version, credentials, count.  The validators are called in that order; *)
(* a version the version validator refuses is answered 'Client requires   *)
(* update.' with no call of the user validator; credentials the user      *)
(* validator refuses are answered 'Invalid credentials.' with no look at  *)
(* the count; and 'Maximum number of connections per user reached.' is    *)
(* written only for a _login the user validator returns a user for.       *)
(***************************************************************************)
Validations(c) ==
    SelectSeq(calls[c], LAMBDA x :
        x \in {"version_validator", "user_validator", "user_count"})

C2_Order ==
    \A c \in Conns :
        /\ IsPrefix(Validations(c),
                    << "version_validator", "user_validator", "user_count" >>)
        /\ RequiresUpdate \in Rejections(c)
            => "user_validator" \notin Range(calls[c])
        /\ InvalidCredentials \in Rejections(c)
            => /\ "user_validator" \in Range(calls[c])
               /\ "user_count" \notin Range(calls[c])
        /\ MaximumReached \in Rejections(c)
            => /\ "user_validator" \in Range(calls[c])
               /\ "user_count" \in Range(calls[c])

C2_Answer(c) ==
    LoginStep(c) /\ LoginMessage(c).name = "_login" =>
        LET m == LoginMessage(c).values
            version_ok == version_validator(m.major, m.minor, m.revision)
            user == user_validator(m.username, m.password, conn[c].salt[1])
        IN /\ ~version_ok => Answer(c) = Frame(Reject(RequiresUpdate))
           /\ version_ok /\ user = None
                => Answer(c) = Frame(Reject(InvalidCredentials))
           /\ Answer(c) = Frame(Reject(MaximumReached))
                => version_ok /\ user # None

C2_RejectionOrder == [](C2_Order) /\ [][\A c \in Conns : C2_Answer(c)]_vars

\* A connection refused for the count, after both validators were called.
C2_Witness ==
    \E c \in Conns :
        /\ MaximumReached \in Rejections(c)
        /\ calls[c] = << "read", "version_validator", "user_validator",
                         "user_count" >>

(***************************************************************************)
(* C3: no count exceeds MAX_CONNECTIONS_PER_USER, and _loginAccept is     *)
(* never written for a user whose count is MAX_CONNECTIONS_PER_USER when  *)
(* the _login is read.                                                     *)
(***************************************************************************)
C3_Counts ==
    \A u \in DOMAIN user_counts : user_counts[u] <= MAX_CONNECTIONS_PER_USER

C3_Accept(c) ==
    LoginStep(c) /\ Answer(c) = Frame(Message("_loginAccept", NoArgs)) =>
        /\ LoginMessage(c).name = "_login"
        /\ user_count(user_counts, LoginMessage(c).values.username)
            < MAX_CONNECTIONS_PER_USER

C3_MaxConnectionsPerUser ==
    [](C3_Counts) /\ [][\A c \in Conns : C3_Accept(c)]_vars

\* A user at the maximum, logged in on one connection and refused on another.
C3_Witness ==
    \E c, d \in Conns :
        /\ conn[d].user = Some(Michael)
        /\ user_count(user_counts, Michael) = MAX_CONNECTIONS_PER_USER
        /\ c # d
        /\ Rejections(c) = {MaximumReached}

(***************************************************************************)
(* C4: an error on one connection closes only that connection: no         *)
(* exception reaches the Server, the halt flag stays clear and the        *)
(* Manager thread keeps running.  (The application of Spec never calls    *)
(* Server.stop.)                                                           *)
(***************************************************************************)
C4_ErrorClosesOnlyThatConnection ==
    /\ halt = FALSE
    /\ exception = None
    /\ mgr_pc # "stopped"

(***************************************************************************)
(* C5: on every connection Manager.user_exit is called at most once, and  *)
(* only after Manager.user_enter; on a closed connection user_exit has    *)
(* been called once exactly if user_enter has been called.                *)
(***************************************************************************)
Count(s, x) == Cardinality({i \in 1..Len(s) : s[i] = x})

C5_EnterExitBalance ==
    \A c \in Conns :
        /\ Count(calls[c], "user_exit") <= 1
        /\ \A i \in 1..Len(calls[c]) :
            calls[c][i] = "user_exit"
                => \E j \in 1..(i - 1) : calls[c][j] = "user_enter"
        /\ ~conn[c].alive
            => (Count(calls[c], "user_exit") = 1
                    <=> Count(calls[c], "user_enter") >= 1)

\* A connection closed after its user entered, beside one closed before any
\* user entered.
C5_Witness ==
    \E c, d \in Conns :
        /\ ~conn[c].alive /\ "user_exit" \in Range(calls[c])
        /\ ~conn[d].alive /\ "user_enter" \notin Range(calls[d])

(***************************************************************************)
(* C6: no per-user count is ever negative, and user_exit is only called   *)
(* for a user whose count is at least 1.                                   *)
(***************************************************************************)
C6_NonNegative == \A u \in DOMAIN user_counts : user_counts[u] >= 0

C6_Exit(c) ==
    Count(calls'[c], "user_exit") > Count(calls[c], "user_exit") =>
        /\ conn[c].user # None
        /\ user_count(user_counts, conn[c].user[1]) >= 1

C6_CountNeverNegative ==
    [](C6_NonNegative) /\ [][\A c \in Conns : C6_Exit(c)]_vars

\* A user who entered twice and left twice: the count is back at 0.
C6_Witness ==
    /\ \A c \in Conns : "user_exit" \in Range(calls[c])
    /\ user_count(user_counts, Michael) = 0

(***************************************************************************)
(* C7: close() on a closed connection changes nothing, and close() twice  *)
(* is close() once; the close() of the Manager's sweep, which is always a *)
(* second close(), changes no connection, no count and calls no           *)
(* user_exit.                                                              *)
(***************************************************************************)
C7_Idempotent ==
    \A c \in Conns :
        /\ Close(Close(View(c))) = Close(View(c))
        /\ ~conn[c].alive => Close(View(c)) = View(c)

\* This step is one pass of Manager.run up to the ticks.
SweepStep == mgr_pc = "cycle" /\ removals' # removals

C7_Sweep ==
    SweepStep => conn' = conn /\ user_counts' = user_counts /\ calls' = calls

C7_CloseIdempotent == [](C7_Idempotent) /\ [][C7_Sweep]_vars

\* The sweep has closed, a second time, a connection whose user had left.
C7_Witness ==
    \E c \in Conns : removals[c] = 1 /\ "user_exit" \in Range(calls[c])

(***************************************************************************)
(* C8: the sweep removes from the Manager's list every connection that is *)
(* not alive and no other; a connection is removed at most once, is never *)
(* in the list twice and is never in it again once removed; and the only  *)
(* connections in the list that are not alive are those closed by their   *)
(* tick in the current pass, which the next sweep removes.                *)
(***************************************************************************)
C8_List ==
    /\ \A i, j \in 1..Len(connections) :
        i # j => connections[i] # connections[j]
    /\ \A c \in Conns :
        /\ removals[c] <= 1
        /\ removals[c] = 1
            => c \notin Range(connections) /\ c \notin Range(incoming)
    /\ \A i \in 1..Len(connections) :
        ~conn[connections[i]].alive
            => /\ removals[connections[i]] = 0
               /\ \/ mgr_pc = "tick" /\ i < mgr_i
                  \/ mgr_pc = "stopped"
                  \/ mgr_pc = "cycle"

C8_Removal ==
    mgr_pc = "cycle" /\ ~halt /\ accepted' = accepted
    /\ managerVars' # managerVars =>
        \A c \in Range(connections) :
            IF conn[c].alive
            THEN c \in Range(connections') /\ removals'[c] = removals[c]
            ELSE c \notin Range(connections') /\ removals'[c] = removals[c] + 1

C8_RemovedExactlyOnce == [](C8_List) /\ [][C8_Removal]_vars

\* A closed connection has been removed while another stays in the list.
C8_Witness ==
    \E c, d \in Conns :
        /\ removals[c] = 1 /\ ~conn[c].alive /\ c \notin Range(connections)
        /\ d \in Range(connections) /\ conn[d].alive

(***************************************************************************)
(* What the properties below read off a state of SpecStream.              *)
(***************************************************************************)
\* The frames of a sequence of messages, one after the other.
FramesOf(ms) == QueueAll(<< >>, ms)

\* The bytes a reader has taken from its socket for the frame it is reading.
ReaderBytes(r) == IF r.size = None THEN r.buff ELSE PackU32(r.size[1]) \o r.buff

\* The messages in the room's queue that came from connection c.
RoomQueue(c) ==
    LET mine == SelectSeq(room_in, LAMBDA e : e[1] = c)
    IN [i \in 1..Len(mine) |-> mine[i][2]]

NonPing(ms) == SelectSeq(ms, LAMBDA m : m.name # "_ping")

\* The messages the client has read in its run loop: all it has read but
\* the two of the handshake.
ReadByClient ==
    LET ms == ReadAll(NewReader, Take(sock[ClientConn].s2c, client.off),
                      "open", << >>).msgs
    IN SubSeq(ms, 3, Len(ms))

\* What the server writes in the handshake.
Handshake ==
    Frame(Message("_welcome", [salt |-> conn[ClientConn].salt[1]]))
    \o Frame(Message("_loginAccept", NoArgs))

(***************************************************************************)
(* C9: the messages the application queued on a logged-in client reach    *)
(* Room.handle in the order they were queued, each once: those handled,   *)
(* followed by those in the room's queue, are the first of those queued;  *)
(* and while the connection is open at both ends, none is lost: the       *)
(* frames of those queued are those of the ones handled or in the room's  *)
(* queue, then the bytes in the server's reader, in the socket, in the    *)
(* client's writer and the frames of its outgoing queue.                  *)
(***************************************************************************)
C9_RoomOrder ==
    /\ IsPrefix(handled[ClientConn] \o RoomQueue(ClientConn), app_sent)
    /\ conn[ClientConn].user # None /\ client.conn = "open"
        => FramesOf(app_sent) =
            FramesOf(handled[ClientConn] \o RoomQueue(ClientConn))
            \o ReaderBytes(conn[ClientConn].rd)
            \o sock[ClientConn].c2s
            \o client.wbuf
            \o FramesOf(client.outgoing)

\* The first of two different messages has been handled while the server's
\* reader holds a part of the frame of the second.
C9_Witness ==
    /\ Len(app_sent) = 2 /\ app_sent[1] # app_sent[2]
    /\ handled[ClientConn] = << app_sent[1] >>
    /\ conn[ClientConn].rd.read > 0

HandleStep == room_pc = "drain" /\ handled' # handled

C11_Raise ==
    HandleStep /\ HandleRaises(conn[Head(room_in)[1]], Head(room_in)[2]) =>
        /\ room_pc' = "drain"
        /\ room_in' = Tail(room_in)
        /\ halt' = halt
        /\ exception' = exception
        /\ conn' = conn

C11_HandlerException == [](room_pc = "stopped" => halt) /\ [][C11_Raise]_vars

\* The handler has raised for ItIs and has then answered WhatTimeIsIt, on a
\* connection that is alive and a server that is not halted.
C11_Witness ==
    /\ handled[ClientConn] = << ItIsNoon, WhatTimeIsIt >>
    /\ Len(queued[ClientConn]) = 1 /\ queued[ClientConn][1].name = "ItIs"
    /\ conn[ClientConn].alive
    /\ ~halt /\ room_pc = "drain"

(***************************************************************************)
(* What the properties below read off a step of SpecPing.                 *)
(***************************************************************************)
\* This step is a tick of connection c, logged in, that no exception left.
NormalTick(c) ==
    /\ mgr_pc = "tick" /\ connections[mgr_i] = c
    /\ mgr_i' = mgr_i + 1
    /\ conn[c].alive /\ conn[c].user # None

\* What that tick reads.
TickRead(c) == ReadAll(conn[c].rd, sock[c].c2s, sock[c].peer, << >>)
TickNames(c) == {m.name : m \in Range(TickRead(c).msgs)}

(***************************************************************************)
(* C12: a tick of a logged-in connection that reads no _pong and meets no *)
(* error of the reader does this: if now > ping_time and no ping is       *)
(* pending it queues _ping, sets ping_sent and sets ping_time to now +    *)
(* PING_TIMEOUT, the connection staying alive; if now > ping_time and a   *)
(* ping is pending it closes the connection for 'Ping time out'; else it  *)
(* queues nothing and leaves ping_sent, ping_time and the connection as   *)
(* they are.  And no connection is closed for 'Ping time out' unless a    *)
(* _ping was queued on it.                                                 *)
(***************************************************************************)
C12_Tick(c) ==
    NormalTick(c) /\ TickRead(c).out = "none" /\ "_pong" \notin TickNames(c) =>
        IF now > conn[c].ping_time[1]
        THEN IF conn[c].ping_sent
             THEN /\ ~conn'[c].alive
                  /\ "Ping time out" \in Range(calls'[c])
                  /\ queued'[c] = queued[c]
             ELSE /\ conn'[c].alive
                  /\ queued'[c] = Append(queued[c], Ping)
                  /\ conn'[c].ping_sent
                  /\ conn'[c].ping_time = Some(now + PING_TIMEOUT)
        ELSE /\ conn'[c].alive
             /\ queued'[c] = queued[c]
             /\ conn'[c].ping_sent = conn[c].ping_sent
             /\ conn'[c].ping_time = conn[c].ping_time

C12_Queued ==
    \A c \in Conns :
        "Ping time out" \in Range(calls[c]) => Ping \in Range(queued[c])

C12_PingThenTimeOut == [](C12_Queued) /\ [][\A c \in Conns : C12_Tick(c)]_vars

\* A connection was pinged, its peer wrote a message that is no _pong, which
\* went to the room, and it was closed for 'Ping time out'.
C12_Witness ==
    /\ "Ping time out" \in Range(calls[PingConn])
    /\ ~conn[PingConn].alive
    /\ Ping \in Range(queued[PingConn])
    /\ handled[PingConn] # << >>

(***************************************************************************)
(* C13: the tick that accepts a login (it writes _loginAccept) leaves the *)
(* connection with ping_time = now + PING_INTERVAL and ping_sent clear.   *)
(***************************************************************************)
C13_Accept(c) ==
    LoginStep(c) /\ Answer(c) = Frame(Message("_loginAccept", NoArgs)) =>
        /\ conn'[c].ping_time = Some(now + PING_INTERVAL)
        /\ conn'[c].ping_sent = FALSE

C13_DeadlineAfterAccept == [][\A c \in Conns : C13_Accept(c)]_vars

(***************************************************************************)
(* C14: a tick of a logged-in connection that reads a _ping queues a      *)
(* _pong on that connection.                                               *)
(***************************************************************************)
C14_Tick(c) ==
    NormalTick(c) /\ "_ping" \in TickNames(c) =>
        \E i \in (Len(queued[c]) + 1)..Len(queued'[c]) :
            queued'[c][i].name = "_pong"

C14_PingAnswered == [][\A c \in Conns : C14_Tick(c)]_vars

(***************************************************************************)
(* C15: no _ping and no _pong is passed to Room.handle or waits in the    *)
(* room's queue, and none is in the Client's incoming queue.              *)
(***************************************************************************)
Keepalive(ms) == {i \in 1..Len(ms) : ms[i].name \in {"_ping", "_pong"}}

C15_KeepaliveInvisible ==
    /\ \A c \in Conns :
        Keepalive(handled[c]) = {} /\ Keepalive(RoomQueue(c)) = {}
    /\ Keepalive(client.incoming) = {}

(***************************************************************************)
(* C16: a tick of a connection awaiting login that writes a _loginReject, *)
(* whatever its reason, or that closes for 'Login time out', changes no   *)
(* user's count, calls neither user_enter nor user_exit and leaves the    *)
(* connection not alive and without a user; and a connection that was     *)
(* rejected or timed out at login is not alive and never had user_enter   *)
(* or user_exit called.                                                    *)
(***************************************************************************)
Reasons == {Unexpected, RequiresUpdate, InvalidCredentials, MaximumReached}

\* This step is a tick of connection c, awaiting login, that no exception
\* left.
AwaitTick(c) ==
    /\ mgr_pc = "tick" /\ connections[mgr_i] = c
    /\ mgr_i' = mgr_i + 1
    /\ AwaitingLogin(c)

Rejected(c) == \E r \in Reasons : Answer(c) = Frame(Reject(r))
TimedOut(c) == "Login time out" \in Range(calls'[c])
NeverEntered(cl) == Count(cl, "user_enter") = 0 /\ Count(cl, "user_exit") = 0

C16_Step(c) ==
    AwaitTick(c) /\ (Rejected(c) \/ TimedOut(c)) =>
        /\ user_counts' = user_counts
        /\ NeverEntered(calls'[c])
        /\ \A d \in Conns \ {c} : calls'[d] = calls[d]
        /\ ~conn'[c].alive
        /\ conn'[c].user = None

C16_State ==
    \A c \in Conns :
        Rejections(c) # {} \/ "Login time out" \in Range(calls[c]) =>
            ~conn[c].alive /\ NeverEntered(calls[c])

C16_FailedLoginLeavesCounts ==
    [](C16_State) /\ [][\A c \in Conns : C16_Step(c)]_vars

\* While michael is logged in on one connection (count 1), another was
\* rejected for its credentials or timed out at login.
C16_Witness ==
    \E c, d \in Conns :
        /\ conn[d].user = Some(Michael) /\ user_counts[Michael] = 1
        /\ ~conn[c].alive
        /\ \/ Rejections(c) = {InvalidCredentials}
           \/ "Login time out" \in Range(calls[c])

(***************************************************************************)
(* C17: while the frame of a message arrives in chunks of any size, read  *)
(* returns None as long as a byte of the frame has yet to arrive, and the *)
(* call once the last byte is in the socket returns the message that a    *)
(* read of the whole frame at once returns, leaving the reader as new;    *)
(* the reader has returned that message, once, exactly when it has taken  *)
(* the whole frame, and nothing before.                                    *)
(***************************************************************************)
\* What a new reader returns when the whole frame is in the socket.
OneShot(m) == Read(NewReader, Frame(m), "open")

C17_Returned ==
    unit.got = IF unit.pending = << >> /\ unit.buf = << >>
               THEN << OneShot(unit.msg).msg >> ELSE << >>

C17_NextRead(x) ==
    IF unit.pending = << >> /\ unit.buf # << >>
    THEN /\ x.out = "msg"
         /\ x.msg = OneShot(unit.msg).msg
         /\ x.r = NewReader /\ x.rest = << >>
    ELSE x.out = "none" /\ x.rest = << >>

C17_SplitFrame ==
    unit.peer = "open" =>
        /\ OneShot(unit.msg).out = "msg"
        /\ C17_Returned
        /\ C17_NextRead(Read(unit.rd, unit.buf, unit.peer))

\* The frame arrived byte by byte, a read met would-block in the middle of
\* it, and the message was returned.
C17_Witness ==
    /\ unit.peer = "open"
    /\ unit.chunks = Len(Frame(unit.msg))
    /\ unit.blocked
    /\ unit.got = << unit.msg >>

(***************************************************************************)
(* C18: a read in which a recv returns no bytes without error (the peer   *)
(* has closed and the socket is empty, at once or after the bytes that    *)
(* complete the length) raises SocketClosedError, whatever the reader has *)
(* buffered.                                                                *)
(***************************************************************************)
ZeroByteRecv ==
    /\ unit.peer = "closed"
    /\ \/ unit.buf = << >>
       \/ SizeUnset(unit.rd) /\ unit.rd.read + Len(unit.buf) = 4

C18_ZeroByteRecvRaises ==
    ZeroByteRecv => Read(unit.rd, unit.buf, unit.peer).out = "closed"

(***************************************************************************)
(* C19: whatever the order of queue and send and whatever the socket      *)
(* takes, the bytes the socket has taken followed by the writer's buffer  *)
(* are the frames (length, then body) of the messages queued, in the      *)
(* order they were queued: what the socket has taken is a prefix of them, *)
(* no byte twice and none left out.  And send returns only with an empty  *)
(* buffer or on would-block.                                               *)
(***************************************************************************)
QueuedFrames ==
    Concat([i \in 1..Len(unit.queued) |->
        PackU32(Len(Pack(unit.queued[i]))) \o Pack(unit.queued[i])])

C19_Bytes ==
    /\ unit.wire \o unit.buff = QueuedFrames
    /\ IsPrefix(unit.wire, QueuedFrames)

C19_Return ==
    unit.pc = "send" /\ unit'.pc = "idle" =>
        \/ unit'.buff = << >> /\ unit'.ret = "empty"
        \/ unit'.ret = "wouldblock" /\ unit'.buff = unit.buff

C19_WriterPrefix == [](C19_Bytes) /\ [][C19_Return]_vars

\* Two different messages were queued, the second behind unsent bytes of
\* the first, a send has met would-block, and the socket has taken all.
C19_Witness ==
    /\ Len(unit.queued) = 2 /\ unit.queued[1] # unit.queued[2]
    /\ unit.mixed /\ unit.blocked
    /\ unit.buff = << >> /\ unit.ret = "empty"
    /\ Len(unit.wire) = Len(QueuedFrames)

(***************************************************************************)
(* C20: for every registered definition and every message of it whose     *)
(* arguments are set, unpack of its packed bytes returns a message of the *)
(* same name with the same value for every argument.                      *)
(***************************************************************************)
SameMessage(m, n) ==
    /\ n.name = m.name
    /\ DOMAIN n.values = DOMAIN m.values
    /\ \A a \in DOMAIN m.values : n.values[a] = m.values[a]

C20_RoundTrip ==
    unit.stage = "unpacked" =>
        unit.result.ok /\ SameMessage(unit.msg, unit.result.msg)

(***************************************************************************)
(* C21.  In every process, a call of MessageDefinition with a name that   *)
(* is already registered fails; a call that fails (duplicate name,        *)
(* invalid name, invalid argument name or kind) leaves _names, _ids and   *)
(* _last_id as they were; and no call of any kind replaces or removes a   *)
(* registered definition: every key of _names and of _ids keeps its       *)
(* value.                                                                  *)
(***************************************************************************)
Kept(before, after) ==
    \A k \in Keys(before) :
        k \in Keys(after) /\ Lookup(after, k) = Lookup(before, k)
C21_Call(p) ==
    /\ unit'.last.op = "define"
            /\ unit'.last.name \in Keys(unit.reg[p].names)
        => ~unit'.last.ok[p]
    /\ unit'.last.op = "define" /\ ~unit'.last.ok[p]
        => unit'.reg[p] = unit.reg[p]
    /\ Kept(unit.reg[p].names, unit'.reg[p].names)
    /\ Kept(unit.reg[p].ids, unit'.reg[p].ids)
C21_RegistryAppendOnly == [][\A p \in Peers : C21_Call(p)]_vars
\* A definition of a registered name has just failed, one that was
\* registered by an earlier call (not one of the reserved names).
C21_Witness ==
    /\ unit.last.op = "define"
    /\ ~unit.last.ok[1]
    /\ unit.last.name \in Keys(unit.reg[1].names)
    /\ unit.last.name \notin Keys(Imported(Len(ReservedCalls)).names)

(***************************************************************************)
(* C22.  Two processes that have made the same calls in the same order    *)
(* (the six reserved definitions, which get the ids 1 to 6, then the same *)
(* MessageDefinition, DefinitionList.add and instantiate calls, each      *)
(* naming its arguments in any order) have registered the same names with *)
(* the same ids, and for every registered name the two definitions pack   *)
(* the same argument values (samples of every kind) to the same bytes.    *)
(***************************************************************************)
ReservedIds(p) ==
    \A k \in 1..Len(ReservedCalls) :
        Lookup(unit.reg[p].names, ReservedCalls[k][1]).id = k
\* Values for the arguments of d: the samples of their kinds, taken in
\* turn from the k-th on, so that arguments of one kind get different
\* values.
Rotated(d, k) ==
    SampleMessage(d,
        [a \in ArgNames(d.args) |->
            ((ArgIndex(d.args, a) + k) % NSamples) + 1]).values
SamePacked(d, e) ==
    \A k \in 1..NSamples : PackAs(d, Rotated(d, k)) = PackAs(e, Rotated(d, k))
SameDefinition(n) ==
    /\ Lookup(unit.reg[1].names, n).id = Lookup(unit.reg[2].names, n).id
    /\ SamePacked(Lookup(unit.reg[1].names, n), Lookup(unit.reg[2].names, n))
C22_SameIdsSameBytes ==
    /\ \A p \in Peers : ReservedIds(p)
    /\ Keys(unit.reg[1].names) = Keys(unit.reg[2].names)
    /\ \A n \in Keys(unit.reg[1].names) : SameDefinition(n)
\* instantiate has just made, in both processes, the definition with three
\* arguments that the two had added with the arguments in different orders.
C22_Witness ==
    /\ unit.last.op = "instantiate"
    /\ \A p \in Peers : unit.last.ok[p]
    /\ AB \in Keys(unit.reg[1].names) \cap unit.differ

(***************************************************************************)
(* C23.  Once the halt flag is set in a running server (Server.run has    *)
(* cleared the flag and is starting or has started its workers), a        *)
(* Listener, a Manager or a Room that is at the test of its loop leaves   *)
(* the loop there; and, every thread being scheduled, all three threads   *)
(* end and the Server reaches POST_RUN.                                    *)
(***************************************************************************)
Cleared == unit.run \notin {"unstarted", "begin"}
WorkersEnded == ~ListenerAlive /\ ~ManagerAlive /\ ~RoomAlive
C23_AtTest ==
    Cleared /\ halt =>
        /\ unit.listener = "check" => unit'.listener \in {"check", "stopped"}
        /\ mgr_pc = "cycle" => mgr_pc' \in {"cycle", "stopped"}
        /\ room_pc = "check" => room_pc' \in {"check", "stopped"}
AllEnded ==
    /\ unit.started = {"start_manager", "start_listener", "start_room"}
    /\ unit.listener = "stopped"
    /\ mgr_pc = "stopped"
    /\ room_pc = "stopped"
C24_CloseAfterWorkers ==
    unit.closed \/ unit.status = "POST_RUN" => halt /\ AllEnded
\* The socket is closed and the status not yet POST_RUN, the Manager
\* having ended with an exception while it held a connection.
C24_Witness ==
    /\ unit.closed
    /\ unit.status = "RUNNING"
    /\ connections # << >>
    /\ exception # None

(***************************************************************************)
(* C25.  A step in which an exception ends the Listener (from listen),    *)
(* the Manager (from a tick) or the Room (from its loop) stores an        *)
(* exception on the Server and sets the halt flag; once an exception is   *)
(* stored the Server reaches POST_RUN and launch ends; and when launch    *)
(* finds the Server thread finished and an exception stored, it raises    *)
(* that exception.                                                         *)
(***************************************************************************)
Escapes ==
    \/ unit.listener = "listen" /\ unit'.listener = "stopped"
    \/ mgr_pc = "tick" /\ mgr_pc' = "stopped"
    \/ room_pc = "drain" /\ room_pc' = "stopped"
C25_Recorded == Escapes => halt' /\ exception' # None
C25_Launch ==
    unit.launch = "poll" /\ unit'.launch = "done" /\ unit.run = "done"
        => unit'.raised = exception /\ unit.status = "POST_RUN"
C25_FatalErrors ==
    /\ [][C25_Recorded /\ C25_Launch]_vars
    /\ (exception # None)
        ~> (unit.status = "POST_RUN" /\ unit.launch = "done")
\* launch has raised the socket.error that ended the Manager.
C25_Witness ==
    /\ unit.launch = "done"
    /\ unit.status = "POST_RUN"
    /\ mgr_pc = "stopped"
    /\ unit.raised = Some("socket.error")

(***************************************************************************)
(* C26.  When what the server has written to the client's socket is the   *)
(* _welcome and a _loginReject with some reason, the client is not and    *)
(* never becomes CONNECTED; once its thread has ended its status is       *)
(* POST_RUN, its socket is closed and the exception it has stored is a    *)
(* ConnectionError with that reason; and the thread does end.              *)
(***************************************************************************)
Reasons26 == {Unexpected, RequiresUpdate, InvalidCredentials, MaximumReached}
RejectedWith(r) ==
    \E salt \in Salts :
        sock[ClientConn].s2c
            = Frame(Message("_welcome", [salt |-> salt])) \o Frame(Reject(r))
C26_Ended(r) ==
    client.pc = "done" =>
        /\ client.status = "POST_RUN"
        /\ client.conn = "none"
        /\ client.exception = LoginRejected(r)
C26_State ==
    \A r \in Reasons26 :
        RejectedWith(r) => client.status # "CONNECTED" /\ C26_Ended(r)
ConnectingFailed == client.raised # None
ReachedConnected ==
    \/ client.status = "CONNECTED"
    \/ client.status = "POST_RUN" /\ ~ConnectingFailed

C27_StartBlocking ==
    /\ unit.app = "ready" => ReachedConnected
    /\ (unit.app \in {"ready", "start_raised"} /\ ConnectingFailed)
            => unit.app = "start_raised"

(***************************************************************************)
(* C28  Client.receive_blocking returns a message that has arrived in the *)
(* incoming queue; it fails with ClientError only when halt is observed   *)
(* before a message arrives; with expected names given and the name of    *)
(* the received message not among them it raises UnexpectedMessageError;  *)
(* it never returns None.                                                  *)
(*                                                                         *)
(* receive_blocking tests the halt flag before it looks at the queue: a   *)
(* message that arrived before the client stopped is left in the queue    *)
(* and the call fails with ClientError.                                    *)
(***************************************************************************)
Results == {unit.results[i] : i \in 1..Len(unit.results)}

C28_ReceiveBlocking ==
    /\ \A r \in Results :
        /\ r.kind = "return" =>
            /\ r.message # None
            /\ r.expected = {} \/ r.message[1].name \in r.expected
        /\ r.kind = "UnexpectedMessageError" =>
            /\ r.expected # {}
            /\ r.message[1].name \notin r.expected
    /\ ~unit.lost

(***************************************************************************)
(* C29  In the client's run loop every _ping read causes one _pong, and   *)
(* no more, to be queued and then written to the socket, and every other  *)
(* message read is put on the incoming queue, in the order of arrival.    *)
(* While the loop runs, what the client has written, what its writer      *)
(* holds and its outgoing queue are the login, the messages of the        *)
(* application in their order, and as many _pong as _ping were read; the  *)
(* messages receive_blocking took and the incoming queue are the messages *)
(* read that are no _ping; and when a _ping is read whose _pong is not    *)
(* written, as many _pong as _ping read are written later, unless the     *)
(* loop ends first.                                                        *)
(***************************************************************************)
\* The client has logged in: its run loop runs, or has ended.
LoggedIn == client.pc \in {"run", "done"} /\ ~ConnectingFailed

Named(ms, name) == SelectSeq(ms, LAMBDA m : m.name = name)
NotNamed(ms, name) == SelectSeq(ms, LAMBDA m : m.name # name)

\* The messages the client has written after its _login, and those with
\* the ones it is yet to write.
WrittenBy(bytes) ==
    LET ms == ReadAll(NewReader, bytes, "open", << >>).msgs
    IN SubSeq(ms, 2, Len(ms))
ClientWritten == WrittenBy(sock[ClientConn].c2s)
ClientQueued ==
    WrittenBy(sock[ClientConn].c2s \o client.wbuf \o FramesOf(client.outgoing))

\* The messages receive_blocking has taken off the incoming queue.
Taken ==
    LET rs == SelectSeq(unit.results, LAMBDA r : r.message # None)
    IN [i \in 1..Len(rs) |-> rs[i].message[1]]

C29_State ==
    LoggedIn =>
        /\ Taken \o client.incoming = NotNamed(ReadByClient, "_ping")
        /\ Len(Named(ClientQueued, "_pong")) <= Len(Named(ReadByClient, "_ping"))
        /\ client.status = "CONNECTED" =>
            /\ Len(Named(ClientQueued, "_pong"))
                = Len(Named(ReadByClient, "_ping"))
            /\ NotNamed(ClientQueued, "_pong") = app_sent

RunRead == ReadAll(client.rd, Unread, ServerEnd, << >>)
RunRaises ==
    /\ client.pc = "run" /\ ~client.halt
    /\ RunRead.out \in {"closed", "sockerr", "unpackerr"}

\* This step is one of the client thread: not of the program at the other
\* end, and not a call of the application.
ClientThreadStep ==
    /\ client' # client
    /\ unit' = unit /\ app_sent' = app_sent
    /\ client' # [client EXCEPT !.halt = TRUE]

Stopped(cl) ==
    /\ cl.exception # None
    /\ cl.conn = "none"
    /\ cl.halt
    /\ cl.status = "POST_RUN"

C30_Step == RunRaises /\ ClientThreadStep => Stopped(client')

TimedOutIn(c) ==
    Len(SelectSeq(calls'[c], LAMBDA x : x = "Ping time out"))
        > Len(SelectSeq(calls[c], LAMBDA x : x = "Ping time out"))

C31_Tick(c) ==
    /\ NormalTick(c) /\ "_pong" \in TickNames(c) =>
        /\ ~TimedOutIn(c)
        /\ TickRead(c).out = "none" =>
            /\ conn'[c].alive
            /\ conn'[c].ping_sent = FALSE
            /\ conn'[c].ping_time = Some(now + PING_INTERVAL)
    /\ NormalTick(c) /\ TimedOutIn(c) =>
        /\ conn[c].ping_sent
        /\ now > conn[c].ping_time[1]
        /\ "_pong" \notin TickNames(c)

C31_PongMovesDeadline == [][\A c \in Conns : C31_Tick(c)]_vars

\* A connection was pinged and its _pong has just been read: it is alive,
\* with no ping pending and its deadline PING_INTERVAL ahead.
C31_Witness ==
    /\ conn[PingConn].alive
    /\ Ping \in Range(queued[PingConn])
    /\ ~conn[PingConn].ping_sent
    /\ conn[PingConn].ping_time = Some(now + PING_INTERVAL)
    /\ now > LOGIN_TIMEOUT + PING_TIMEOUT

(***************************************************************************)
(* C32  The tick that sends _welcome sets the deadline of the login to    *)
(* now + LOGIN_TIMEOUT.  A tick of a connection awaiting login whose read *)
(* returns no message closes it for 'Login time out' if now is past the   *)
(* deadline, and else leaves it alive with the deadline as it was, also   *)
(* when it has read bytes of a frame; and a connection is closed for      *)
(* 'Login time out' only by such a tick past the deadline.                 *)
(***************************************************************************)
\* This step is the first tick of connection c.
InitialTick(c) ==
    /\ mgr_pc = "tick" /\ connections[mgr_i] = c
    /\ mgr_i' = mgr_i + 1
    /\ conn[c].alive /\ conn[c].salt = None

\* What a tick of c awaiting login reads.
LoginRead(c) == Read(conn[c].rd, sock[c].c2s, sock[c].peer)

LoginTimedOutIn(c) ==
    "Login time out" \in Range(calls'[c])
        /\ "Login time out" \notin Range(calls[c])

C32_Tick(c) ==
    /\ InitialTick(c) => conn'[c].ping_time = Some(now + LOGIN_TIMEOUT)
    /\ AwaitTick(c) /\ LoginRead(c).out = "none" =>
        IF now > conn[c].ping_time[1]
        THEN ~conn'[c].alive /\ LoginTimedOutIn(c)
        ELSE /\ conn'[c].alive
             /\ conn'[c].ping_time = conn[c].ping_time
             /\ ~LoginTimedOutIn(c)
    /\ LoginTimedOutIn(c) =>
        /\ AwaitTick(c)
        /\ LoginRead(c).out = "none"
        /\ now > conn[c].ping_time[1]

C32_LoginTimeOut == [][\A c \in Conns : C32_Tick(c)]_vars

\* A connection was closed for 'Login time out' while its reader held a
\* part of a frame.
C32_Witness ==
    /\ "Login time out" \in Range(calls[PingConn])
    /\ ~conn[PingConn].alive
    /\ conn[PingConn].rd.read > 0 \/ conn[PingConn].rd.size # None

(***************************************************************************)
(* C33  A tick of a connection awaiting login that reads a message whose  *)
(* name is not _login calls neither the version validator nor the user    *)
(* validator; it writes _loginReject with the reason 'Unexpected          *)
(* message.' and nothing else and leaves the connection not alive and     *)
(* without a user, unless the write raises, which ends the Manager.  A    *)
(* connection so rejected has had no validator called.                     *)
(***************************************************************************)
\* This step is a tick of connection c, awaiting login.
LoginTick(c) ==
    /\ mgr_pc = "tick" /\ connections[mgr_i] = c
    /\ AwaitingLogin(c)
    /\ mgr_pc' # mgr_pc \/ mgr_i' # mgr_i

Validated(cl) == Count(cl, "version_validator") + Count(cl, "user_validator")

C33_Tick(c) ==
    LoginTick(c) /\ LoginRead(c).out = "msg"
                 /\ LoginRead(c).msg.name # "_login" =>
        /\ Validated(calls'[c]) = 0
        /\ user_counts' = user_counts
        /\ \/ /\ Answer(c) = Frame(Reject(Unexpected))
              /\ ~conn'[c].alive
              /\ conn'[c].user = None
           \/ mgr_pc' = "stopped" /\ exception' # None

C33_State ==
    \A c \in Conns : Unexpected \in Rejections(c) => Validated(calls[c]) = 0

TakenBytes == Len(unit.bad) + Len(Frame(Ping)) - Len(unit.pending) - Len(unit.buf)

C34_BadFrameRaises ==
    /\ unit.got = << >>
    /\ (TakenBytes >= Len(unit.bad) /\ unit.peer = "open") => unit.raised

(***************************************************************************)
(* C35  In every reachable state and for every connection: a user set     *)
(* implies the salt set and the connection alive; a connection that is    *)
(* not alive has no user; a tick of a connection that is not alive reads  *)
(* nothing, writes nothing and changes nothing, and so does a close of    *)
(* it.  And a connection that is not alive never is alive again.          *)
(***************************************************************************)
C35_State ==
    \A c \in Conns :
        /\ conn[c].user # None => conn[c].salt # None /\ conn[c].alive
        /\ ~conn[c].alive =>
            /\ conn[c].user = None
            /\ Tick(View(c), now) = {View(c)}
            /\ Close(View(c)) = View(c)

C35_Step == \A c \in Conns : ~conn[c].alive => ~conn'[c].alive

C35_ConnectionState == [](C35_State) /\ [][C35_Step]_vars

\* Past the deadline of its login, a connection that was rejected is not
\* alive and has its salt, beside one that is logged in; the Manager has
\* removed the first and goes on ticking.
C35_Witness ==
    \E c, d \in Conns :
        /\ ~conn[c].alive /\ conn[c].salt # None /\ removals[c] = 1
        /\ Rejections(c) # {}
        /\ now > conn[c].ping_time[1]
        /\ conn[d].alive /\ conn[d].user # None
        /\ mgr_pc = "tick"

(***************************************************************************)
(* C36  Between the ticks of the Manager, and so at the end of each of    *)
(* its cycles, the count of every user name is the number of connections  *)
(* that are alive and have adopted a user of that name.                    *)
(***************************************************************************)
UserNames == {Michael, Stranger} \cup DOMAIN user_counts
ActiveOf(u) == {c \in Conns : conn[c].alive /\ conn[c].user = Some(u)}

C36_CountsMatch ==
    \A u \in UserNames : user_count(user_counts, u) = Cardinality(ActiveOf(u))

\* At the end of a cycle michael is logged in on one connection, after the
\* connection on which he was logged in before has been closed.
C36_Witness ==
    \E c, d \in Conns :
        /\ mgr_pc = "cycle"
        /\ conn[d].user = Some(Michael) /\ conn[d].alive
        /\ ~conn[c].alive /\ Count(calls[c], "user_exit") = 1
        /\ user_counts[Michael] = 1

(***************************************************************************)
(* C37  A call of Server.stop made once the Server thread is started,     *)
(* also before Server.run has begun to execute, is never lost: the halt   *)
(* flag, once set, stays set, and the Server reaches POST_RUN.            *)
(*                                                                         *)
(* Server.run clears the halt flag after it has set the status to         *)
(* RUNNING: a stop that comes before that statement is undone by it.      *)
(***************************************************************************)
ServerThreadStarted == unit.run # "unstarted"

C37_Step == ServerThreadStarted /\ halt => halt'

C37_StopNeverLost ==
    /\ [][C37_Step]_vars
    /\ (ServerThreadStarted /\ halt) ~> (unit.status = "POST_RUN")

(***************************************************************************)
(* C38  Whenever the client thread has ended (status POST_RUN), after a   *)
(* failed connect or handshake or after the run loop, the client's halt   *)
(* flag is set and its socket is closed, so that the loop of              *)
(* receive_blocking ends.                                                  *)
(*                                                                         *)
(* After a failed _connect, Client.run sets POST_RUN and returns: it      *)
(* calls neither close nor stop.                                           *)
(***************************************************************************)
C38_StoppedClient ==
    client.status = "POST_RUN" => client.halt /\ client.conn = "none"

(***************************************************************************)
(* C39  MessageReader.read takes no byte beyond the end of the frame it   *)
(* is reading: the frames of the messages it has returned, the bytes it   *)
(* holds of the frame it is reading, the bytes in the socket and those    *)
(* yet to arrive are the frames sent, and the reader never holds more     *)
(* than the rest of one frame.  A read that returns a message leaves the  *)
(* reader as new.  So the messages returned are the first of those sent,  *)
(* in order, and all of them once every byte is taken, whatever the       *)
(* chunks.                                                                 *)
(***************************************************************************)
C39_State ==
    /\ FramesOf(unit.got) \o ReaderBytes(unit.rd) \o unit.buf \o unit.pending
        = FramesOf(unit.msgs)
    /\ IsPrefix(unit.got, unit.msgs)
    /\ unit.got # unit.msgs =>
        Len(ReaderBytes(unit.rd))
            < Len(Frame(unit.msgs[Len(unit.got) + 1]))
    /\ unit.buf = << >> /\ unit.pending = << >> => unit.got = unit.msgs

C39_Read ==
    unit'.got # unit.got =>
        /\ unit'.got = Append(unit.got, unit.msgs[Len(unit.got) + 1])
        /\ unit'.rd = NewReader

C39_BackToBack == [](C39_State) /\ [][C39_Read]_vars

\* Two different messages have been returned, the socket having held the
\* end of the first frame and the start of the second at once, and a read
\* having met would-block in the middle of a frame.
C39_Witness ==
    /\ unit.got = unit.msgs
    /\ unit.msgs[1] # unit.msgs[2]
    /\ unit.chunks = 2
    /\ unit.blocked

(***************************************************************************)
(* C40  A single connection cannot stall the Manager: a tick returns       *)
(* after a bounded amount of work also when the peer keeps sending, so     *)
(* that, the Manager thread being scheduled, the loop over the             *)
(* connections always comes to its end (every other connection is         *)
(* ticked), the connections the Listener has accepted are admitted, and a *)
(* halt flag that is set is observed and ends Manager.run.                 *)
(*                                                                         *)
(* The loop "while message:" of tick_normal reads until a read returns no *)
(* message: a peer that writes a frame whenever the one before has been   *)
(* read keeps the Manager in that loop for ever.                           *)
(***************************************************************************)
InTick == mgr_pc = "tick"

C40_NoStall ==
    /\ InTick ~> ~InTick
    /\ (incoming # << >>) ~> (incoming = << >> \/ mgr_pc = "stopped")
    /\ halt ~> (mgr_pc = "stopped")

====
